---- MODULE Spec2Model ----
(***************************************************************************)
(* Model of the Bernard significance extension: the idle-state store, the  *)
(* sleep-window and learning-mode evaluators, the check-in gate, the       *)
(* context extraction pipeline and the proactive scheduler tick together   *)
(* with the agent_end idle update.                                         *)
(*                                                                         *)
(* Time.  Every timestamp and duration is counted in minutes (the source   *)
(* counts milliseconds; 1 unit here = 60000 ms).  Date.now() and           *)
(* new Date() read the same clock `now`; local midnight falls on multiples *)
(* of DayMs.  Code that runs between two awaits is synchronous and reads   *)
(* one value of the clock; the clock may advance at every await.           *)
(***************************************************************************)
EXTENDS Integers, Sequences, FiniteSets, TLC

VARIABLES
    now,         \* the wall clock, in minutes
    cfg,         \* the parsed plugin configuration (configSchema.parse)
    file,        \* significance-idle.json: the persisted idle state
    logs,        \* memory/<date>.md for today and yesterday
    ledger,      \* .significance/tasks.json
    ticks,       \* the in-flight setInterval callbacks, one record per slot
    nextFireAt,  \* when the interval timer fires next
    docs,        \* the keywords found in USER.md and RELATIONAL.md
    ae,          \* the agent_end idle-update handler
    sent,        \* check-ins handed to enqueueSystemEvent, in order
    serial,      \* history: the record a serial run of the updates leaves
    turns,       \* history: how many turns have completed
    svc,         \* the registered service: its start() call and its interval timer
    qmd,         \* one queryQmd call: the child process, its timer and its promise
    args,        \* arguments of a function applied on its own
    ret          \* its result

vars ==
    <<now, cfg, file, logs, ledger, docs, ticks, nextFireAt, ae, sent, serial, turns,
      svc, qmd, args, ret>>

----------------------------------------------------------------------------
(* Bounds of the model *)

\* how many times the clock advances in a run
MaxSteps == 2

\* how many turns complete in a run
MaxTurns == 1

\* the setInterval callbacks that can be in flight together
TickIds == {1, 2}

----------------------------------------------------------------------------
(* Time constants *)

DayMs == 24 * 60

HourMs == 1 * 60

\* idle-service.ts:58  14 * 24 * 60 * 60 * 1000 ms
twoWeeksMs == 14 * 24 * 60

\* idle-service.ts:114  minTimeBetweenCheckInsMs = 3600000
DefaultMinTimeBetweenCheckInsMs == 60

\* part_005:73  checkIntervalMs || 1800000
DefaultCheckIntervalMs == 30

\* part_005:74  learningIdleThresholdMs || 7200000
DefaultLearningIdleThresholdMs == 120

\* part_005:75  matureIdleThresholdMs || 14400000
DefaultMatureIdleThresholdMs == 240

\* the moment the module is loaded and the run begins: day 30, 22:00
T0 == 30 * DayMs + 22 * 60

\* the clock moves in steps of this many minutes
Quantum == HourMs

----------------------------------------------------------------------------
(* Configured times of day: a number of hours, or a string split at ":" *)

NumTime(h) == [kind |-> "number", hours |-> h]

StrTime(p) == [kind |-> "string", parts |-> p]

\* a configured value that is neither a number nor a string (true, a list)
OtherTime == [kind |-> "other"]

\* idle-service.ts:70, part_005:89  time.split is not a function
ParseTimeThrows(time) == time.kind = "other"

\* idle-service.ts parseTimeToMinutes
parseTimeToMinutes(time) ==
    IF time.kind = "number"
    THEN time.hours * 60
    ELSE IF Len(time.parts) = 2
         THEN time.parts[1] * 60 + time.parts[2]
         ELSE time.parts[1] * 60

\* new Date(): getHours() * 60 + getMinutes()
currentMinutes(t) == t % DayMs

isInSleepHours_endInclusive(sleepStart, sleepEnd, t) ==
    LET startMinutes == parseTimeToMinutes(sleepStart)
        endMinutes == parseTimeToMinutes(sleepEnd)
    IN  IF startMinutes > endMinutes
        THEN currentMinutes(t) >= startMinutes \/ currentMinutes(t) <= endMinutes
        ELSE currentMinutes(t) >= startMinutes /\ currentMinutes(t) <= endMinutes

\* idle-service.ts isInSleepHours, at clock value t
isInSleepHours(sleepStart, sleepEnd, t) ==
    LET startMinutes == parseTimeToMinutes(sleepStart)
        endMinutes == parseTimeToMinutes(sleepEnd)
    IN  IF startMinutes > endMinutes
        THEN currentMinutes(t) >= startMinutes \/ currentMinutes(t) < endMinutes
        ELSE currentMinutes(t) >= startMinutes /\ currentMinutes(t) < endMinutes

\* idle-service.ts getTimeOfDay, at clock value t
getIdleTimeOfDay(sleepStart, sleepEnd, t) ==
    LET hour == currentMinutes(t) \div 60
    IN  IF isInSleepHours(sleepStart, sleepEnd, t) THEN "night"
        ELSE IF hour >= 5 /\ hour < 12 THEN "morning"
        ELSE IF hour >= 12 /\ hour < 18 THEN "afternoon"
        ELSE "evening"

----------------------------------------------------------------------------
(* The idle-state store *)

IdleFields == {"lastInteractionMs", "lastCheckInMs", "relationshipStartMs", "checkInCount"}

\* DEFAULT_STATE is built once, when the module is loaded
DEFAULT_STATE ==
    [lastInteractionMs |-> T0, lastCheckInMs |-> 0,
     relationshipStartMs |-> T0, checkInCount |-> 0]

AbsentFile == [kind |-> "absent"]

\* a file that readFile rejects (no permission, a directory in its place)
UnreadableFile == [kind |-> "unreadable"]

\* the complete text of a JSON object: each member's name and the text of
\* its value
JsonFile(d) == [kind |-> "json", data |-> d]

\* a text that stops before its closing brace, with the members of d that
\* were written in full: what an interrupted writeFile leaves behind
PartialFile(d) == [kind |-> "partial", data |-> d]

\* the decimal digits of a non-negative integer, most significant first:
\* how JSON.stringify writes a number
RECURSIVE Digits(_)
Digits(n) == IF n < 10 THEN <<n>> ELSE Append(Digits(n \div 10), n % 10)

\* the number a sequence of decimal digits denotes: how JSON.parse reads it
RECURSIVE NumberOf(_)
NumberOf(ds) ==
    IF Len(ds) = 1 THEN ds[1]
    ELSE 10 * NumberOf(SubSeq(ds, 1, Len(ds) - 1)) + ds[Len(ds)]

\* the order in which JSON.stringify writes the members
FieldOrder == <<"lastInteractionMs", "lastCheckInMs", "relationshipStartMs", "checkInCount">>

NoMembers == [f \in {} |-> <<>>]

\* the first k members of the text of state s
WrittenMembers(s, k) == [f \in {FieldOrder[j] : j \in 1..k} |-> Digits(s[f])]

\* JSON.stringify(state, null, 2)
JSON_stringify(state) == [f \in DOMAIN state |-> Digits(state[f])]

\* JSON.parse(content) of a complete text
JSON_parse(d) == [f \in DOMAIN d |-> NumberOf(d[f])]

\* what a caller sees when the call throws
Thrown == [thrown |-> TRUE]

\* parsed.f ?? dflt
Coalesce(parsed, f, dflt) == IF f \in DOMAIN parsed THEN parsed[f] ELSE dflt

\* parsed.f || dflt
OrElse(parsed, f, dflt) == IF f \in DOMAIN parsed /\ parsed[f] # 0 THEN parsed[f] ELSE dflt

loadIdleState_falsyDefaults(f, t) ==
    IF f.kind = "json"
    THEN LET parsed == JSON_parse(f.data)
         IN  [lastInteractionMs |-> OrElse(parsed, "lastInteractionMs", t),
              lastCheckInMs |-> OrElse(parsed, "lastCheckInMs", 0),
              relationshipStartMs |-> OrElse(parsed, "relationshipStartMs", t),
              checkInCount |-> OrElse(parsed, "checkInCount", 0)]
    ELSE DEFAULT_STATE

loadIdleState_parseOutsideTry(f, t) ==
    IF f.kind = "json"
    THEN LET parsed == JSON_parse(f.data)
         IN  [lastInteractionMs |-> Coalesce(parsed, "lastInteractionMs", t),
              lastCheckInMs |-> Coalesce(parsed, "lastCheckInMs", 0),
              relationshipStartMs |-> Coalesce(parsed, "relationshipStartMs", t),
              checkInCount |-> Coalesce(parsed, "checkInCount", 0)]
    ELSE IF f.kind = "partial" THEN Thrown
    ELSE DEFAULT_STATE

\* idle-service.ts loadIdleState, reading file content f at clock value t:
\* readFile rejects for an absent or unreadable file and JSON.parse throws
\* on a partial text; the catch answers both with a copy of DEFAULT_STATE
loadIdleState(f, t) ==
    IF f.kind = "json"
    THEN LET parsed == JSON_parse(f.data)
         IN  [lastInteractionMs |-> Coalesce(parsed, "lastInteractionMs", t),
              lastCheckInMs |-> Coalesce(parsed, "lastCheckInMs", 0),
              relationshipStartMs |-> Coalesce(parsed, "relationshipStartMs", t),
              checkInCount |-> Coalesce(parsed, "checkInCount", 0)]
    ELSE DEFAULT_STATE

\* idle-service.ts saveIdleState: the content of the file once the write
\* of state s has completed
saveIdleState(s) == JsonFile(JSON_stringify(s))

\* idle-service.ts getIdleMs
getIdleMs(state, t) == t - state.lastInteractionMs

isInLearningMode_inclusive(state, t) == t - state.relationshipStartMs <= twoWeeksMs

\* idle-service.ts isInLearningMode
isInLearningMode(state, t) == t - state.relationshipStartMs < twoWeeksMs

----------------------------------------------------------------------------
(* The check-in gate *)

\* the absent optional parameter
Undefined == [kind |-> "undefined"]

Given(v) == [kind |-> "value", value |-> v]

shouldSendCheckIn_noSleepCheck(state, idleThresholdMs, sleepStart, sleepEnd, minGap, t) ==
    LET minTimeBetweenCheckInsMs ==
            IF minGap.kind = "undefined" THEN DefaultMinTimeBetweenCheckInsMs ELSE minGap.value
        timeSinceLastCheckIn == t - state.lastCheckInMs
    IN  IF timeSinceLastCheckIn < minTimeBetweenCheckInsMs THEN FALSE
        ELSE getIdleMs(state, t) >= idleThresholdMs

shouldSendCheckIn_noGapCheck(state, idleThresholdMs, sleepStart, sleepEnd, minGap, t) ==
    IF isInSleepHours(sleepStart, sleepEnd, t) THEN FALSE
    ELSE getIdleMs(state, t) >= idleThresholdMs

shouldSendCheckIn_strict(state, idleThresholdMs, sleepStart, sleepEnd, minGap, t) ==
    LET minTimeBetweenCheckInsMs ==
            IF minGap.kind = "undefined" THEN DefaultMinTimeBetweenCheckInsMs ELSE minGap.value
        timeSinceLastCheckIn == t - state.lastCheckInMs
    IN  IF isInSleepHours(sleepStart, sleepEnd, t) THEN FALSE
        ELSE IF timeSinceLastCheckIn < minTimeBetweenCheckInsMs THEN FALSE
        ELSE getIdleMs(state, t) > idleThresholdMs

shouldSendCheckIn_gapFromZero(state, idleThresholdMs, sleepStart, sleepEnd, minGap, t) ==
    LET minTimeBetweenCheckInsMs ==
            IF minGap.kind = "undefined" THEN DefaultMinTimeBetweenCheckInsMs ELSE minGap.value
        timeSinceLastCheckIn == IF state.lastCheckInMs = 0 THEN 0 ELSE t - state.lastCheckInMs
    IN  IF isInSleepHours(sleepStart, sleepEnd, t) THEN FALSE
        ELSE IF timeSinceLastCheckIn < minTimeBetweenCheckInsMs THEN FALSE
        ELSE getIdleMs(state, t) >= idleThresholdMs

\* idle-service.ts shouldSendCheckIn, at clock value t
shouldSendCheckIn(state, idleThresholdMs, sleepStart, sleepEnd, minGap, t) ==
    LET minTimeBetweenCheckInsMs ==
            IF minGap.kind = "undefined" THEN DefaultMinTimeBetweenCheckInsMs ELSE minGap.value
        timeSinceLastCheckIn == t - state.lastCheckInMs
    IN  IF isInSleepHours(sleepStart, sleepEnd, t) THEN FALSE
        ELSE IF timeSinceLastCheckIn < minTimeBetweenCheckInsMs THEN FALSE
        ELSE getIdleMs(state, t) >= idleThresholdMs

----------------------------------------------------------------------------
(* Context extraction: semantic search first, files as the fallback *)

\* An optional value is a sequence of length 0 (null) or 1.
NullValue == <<>>

\* xs[0] ?? null
FirstOrNull(xs) == IF Len(xs) > 0 THEN <<xs[1]>> ELSE NullValue

\* xs.slice(0, n)
SliceHead(xs, n) == IF Len(xs) <= n THEN xs ELSE SubSeq(xs, 1, n)

\* xs.slice(-n)
SliceTail(xs, n) == IF Len(xs) <= n THEN xs ELSE SubSeq(xs, Len(xs) - n + 1, Len(xs))

\* A quoted line of a dated log: its text and its length in characters.
Quote(text, len) == [text |-> text, len |-> len]

\* quote.slice(0, 100)
SliceQuote(q, n) == [text |-> q.text, len |-> IF q.len <= n THEN q.len ELSE n]

\* What the four parallel queryQmd calls resolved to, or that the call threw
\* before its promise was created.
QmdAnswer(thrown, tasks, threads, topic, decisions) ==
    [thrown |-> thrown, taskSnippets |-> tasks, threadSnippets |-> threads,
     topicSnippets |-> topic, decisionSnippets |-> decisions]

EmptyQmdContext ==
    [recentTasks |-> <<>>, openThreads |-> <<>>, lastTopic |-> NullValue,
     recentDecisions |-> <<>>]

\* qmd-context.ts extractQmdContext, given an answer that did not throw
extractQmdContext(q) ==
    [recentTasks |-> q.taskSnippets, openThreads |-> q.threadSnippets,
     lastTopic |-> FirstOrNull(q.topicSnippets),
     recentDecisions |-> q.decisionSnippets]

\* qmd-context.ts extractCombinedContext
extractCombinedContext(q) ==
    IF q.thrown THEN EmptyQmdContext
    ELSE LET qmdContext == extractQmdContext(q)
         IN  IF Len(qmdContext.recentTasks) > 0 \/ Len(qmdContext.openThreads) > 0
             THEN qmdContext
             ELSE EmptyQmdContext

EmptyRecentContext ==
    [lastTasks |-> <<>>, openThreads |-> <<>>, recentDecisions |-> <<>>,
     lastInteraction |-> NullValue]

AbsentLog == [kind |-> "absent"]

\* A dated log that exists: the quoted first lines of its DECISION entries,
\* in file order (what the two regular expressions of the reader capture).
LogFile(decisions) == [kind |-> "text", decisions |-> decisions]

\* part_005:160-166  the last three entries, each non-empty quote cut at 100
RECURSIVE DecisionQuotes(_)
DecisionQuotes(ds) ==
    IF ds = <<>> THEN <<>>
    ELSE IF Head(ds).len > 0
         THEN <<SliceQuote(Head(ds), 100)>> \o DecisionQuotes(Tail(ds))
         ELSE DecisionQuotes(Tail(ds))

\* part_005:155-168  one dated log's contribution
ReadLogDecisions(log) ==
    IF log.kind = "text" THEN DecisionQuotes(SliceTail(log.decisions, 3)) ELSE <<>>

AbsentLedger == [kind |-> "absent"]

\* tasks.json whose content JSON.parse rejects
InvalidLedger == [kind |-> "invalid"]

JsonLedger(d) == [kind |-> "json", data |-> d]

\* a text where a list of strings is expected (tasks.json with
\* "recent": "..."): it has a length and slices, and no join
NotAList == <<"(a text, not a list)">>

\* part_005:206  lastTasks.slice(0, 3).join is not a function
PromptThrows(context) == context.lastTasks = NotAList

\* part_005:148-185  the file-based reader, starting from `context`
ReadFallback(context, lg, ld) ==
    LET withDecisions ==
            [context EXCEPT !.recentDecisions =
                @ \o ReadLogDecisions(lg.today) \o ReadLogDecisions(lg.yesterday)]
    IN  IF ld.kind = "absent" THEN withDecisions
        ELSE IF ld.kind = "invalid" THEN withDecisions
        ELSE [withDecisions EXCEPT
                !.lastTasks = Coalesce(ld.data, "recent", <<>>),
                !.openThreads = Coalesce(ld.data, "openThreads", <<>>),
                !.lastInteraction =
                    IF "lastInteraction" \in DOMAIN ld.data
                    THEN <<ld.data["lastInteraction"]>> ELSE @]

getRecentContext_noFallback(c, q, lg, ld) ==
    LET useSearch == c.useQmd /\ c.hasConfig
        qmdContext == extractCombinedContext(q)
    IN  IF useSearch
        THEN [context |-> [EmptyRecentContext EXCEPT
                              !.lastTasks = qmdContext.recentTasks,
                              !.openThreads = qmdContext.openThreads,
                              !.recentDecisions = qmdContext.recentDecisions],
              qmdQueried |-> TRUE, fallbackRan |-> FALSE]
        ELSE [context |-> ReadFallback(EmptyRecentContext, lg, ld),
              qmdQueried |-> FALSE, fallbackRan |-> TRUE]

getRecentContext_noEarlyReturn(c, q, lg, ld) ==
    LET useSearch == c.useQmd /\ c.hasConfig
        qmdContext == extractCombinedContext(q)
    IN  IF useSearch /\ (Len(qmdContext.recentTasks) > 0 \/ Len(qmdContext.openThreads) > 0)
        THEN [context |-> ReadFallback([EmptyRecentContext EXCEPT
                                           !.lastTasks = qmdContext.recentTasks,
                                           !.openThreads = qmdContext.openThreads,
                                           !.recentDecisions = qmdContext.recentDecisions],
                                       lg, ld),
              qmdQueried |-> TRUE, fallbackRan |-> TRUE]
        ELSE [context |-> ReadFallback(EmptyRecentContext, lg, ld),
              qmdQueried |-> useSearch, fallbackRan |-> TRUE]

\* part_005:116-186 getRecentContext: the context returned, whether the
\* semantic search was queried and whether the file-based reader ran
getRecentContext(c, q, lg, ld) ==
    LET useSearch == c.useQmd /\ c.hasConfig
        qmdContext == extractCombinedContext(q)
    IN  IF useSearch /\ (Len(qmdContext.recentTasks) > 0 \/ Len(qmdContext.openThreads) > 0)
        THEN [context |-> [EmptyRecentContext EXCEPT
                              !.lastTasks = qmdContext.recentTasks,
                              !.openThreads = qmdContext.openThreads,
                              !.recentDecisions = qmdContext.recentDecisions],
              qmdQueried |-> TRUE, fallbackRan |-> FALSE]
        ELSE [context |-> ReadFallback(EmptyRecentContext, lg, ld),
              qmdQueried |-> useSearch, fallbackRan |-> TRUE]

----------------------------------------------------------------------------
(* Gap detection and the check-in hint *)

NameGap == [category |-> "user", suggestedQuestion |-> "What should I call you?"]

WorkGap == [category |-> "user", suggestedQuestion |-> "What kind of work do you do?"]

CommunicationGap ==
    [category |-> "relational", suggestedQuestion |-> "straight to the point or more context?"]

DisagreeGap ==
    [category |-> "relational", suggestedQuestion |-> "how direct should I be?"]

\* USER.md or RELATIONAL.md that does not exist
AbsentDoc == [kind |-> "absent"]

\* a document as its lines; a line is its leading mark ("# ", "## ",
\* "### ", "- " or none), its text, and the keywords of detectGaps that its
\* lower-cased text contains
DocFile(lines) == [kind |-> "text", lines |-> lines]

Line(mark, text, words) == [mark |-> mark, text |-> text, words |-> words]

\* the keywords that the lower-cased document contains ("" when the read
\* fails)
Keywords(doc) ==
    IF doc.kind = "absent" THEN {}
    ELSE UNION {doc.lines[j].words : j \in 1..Len(doc.lines)}

\* part_005:963-999 detectGaps on USER.md (d.user) and RELATIONAL.md (d.rel)
detectGaps(d) ==
    LET user == Keywords(d.user)
        rel == Keywords(d.rel)
    IN  (IF "name" \notin user THEN <<NameGap>> ELSE <<>>)
        \o (IF "work" \notin user THEN <<WorkGap>> ELSE <<>>)
        \o (IF "communication" \notin rel THEN <<CommunicationGap>> ELSE <<>>)
        \o (IF "disagree" \notin rel THEN <<DisagreeGap>> ELSE <<>>)

\* part_005:188-246 generateCheckInPrompt at clock value t: null during
\* sleep, otherwise the hint (time of day, context lines, focus line)
generateCheckInPrompt(timeOfDay, context, gaps, t) ==
    IF timeOfDay = "sleep" THEN NullValue
    ELSE LET sinceMs ==
                 IF context.lastInteraction # NullValue
                 THEN t - context.lastInteraction[1] ELSE 0
             parts ==
                 (IF Len(context.lastTasks) > 0
                  THEN <<[label |-> "Recent tasks",
                          items |-> SliceHead(context.lastTasks, 3)]>> ELSE <<>>)
                 \o (IF Len(context.openThreads) > 0
                     THEN <<[label |-> "Open threads",
                             items |-> SliceHead(context.openThreads, 2)]>> ELSE <<>>)
                 \o (IF Len(context.recentDecisions) > 0
                     THEN <<[label |-> "Recent decisions",
                             items |-> <<context.recentDecisions[1]>>]>> ELSE <<>>)
             checkInFocus ==
                 IF sinceMs > 24 * HourMs /\ Len(context.openThreads) > 0
                 THEN [kind |-> "thread", about |-> <<context.openThreads[1]>>]
                 ELSE IF Len(context.lastTasks) > 0
                 THEN [kind |-> "task", about |-> <<context.lastTasks[1]>>]
                 ELSE IF Len(gaps) > 0
                 THEN [kind |-> "gap", about |-> <<gaps[1].suggestedQuestion>>]
                 ELSE [kind |-> "open-ended", about |-> <<>>]
         IN  <<[time |-> timeOfDay, parts |-> parts, focus |-> checkInFocus]>>

----------------------------------------------------------------------------
(* Configuration *)

\* Number(v) || dflt, for an option that is absent or a number
NumberOr(raw, f, dflt) == IF f \in DOMAIN raw /\ raw[f] # 0 THEN raw[f] ELSE dflt

\* part_005:59-78 configSchema.parse; raw maps the options given to their values
configSchema_parse(raw) ==
    [enabled |-> Coalesce(raw, "enabled", TRUE),
     autoInject |-> Coalesce(raw, "autoInject", TRUE),
     gapDetection |-> Coalesce(raw, "gapDetection", TRUE),
     checkIns |-> Coalesce(raw, "checkIns", TRUE),
     proactiveCheckIns |-> Coalesce(raw, "proactiveCheckIns", TRUE),
     useQmd |-> Coalesce(raw, "useQmd", TRUE),
     sleepStart |-> Coalesce(raw, "sleepStart", StrTime(<<0, 0>>)),
     sleepEnd |-> Coalesce(raw, "sleepEnd", StrTime(<<8, 0>>)),
     checkIntervalMs |-> NumberOr(raw, "checkIntervalMs", DefaultCheckIntervalMs),
     learningIdleThresholdMs |->
         NumberOr(raw, "learningIdleThresholdMs", DefaultLearningIdleThresholdMs),
     matureIdleThresholdMs |->
         NumberOr(raw, "matureIdleThresholdMs", DefaultMatureIdleThresholdMs)]

\* no option given
NoOptions == [f \in {} |-> 0]

----------------------------------------------------------------------------
(* The proactive scheduler: one setInterval callback per slot of `ticks`.   *)
(* The callback is async: between two of its actions other callbacks and   *)
(* the agent_end handler may run and the clock may advance.  A read of the *)
(* idle-state file is taken together with the synchronous code that        *)
(* follows it, a write is an action of its own.  The service's stateDir    *)
(* and the handler's ~/.openclaw/state are the same directory.             *)

\* part_005:602  the service before start() is called: checkInterval = null
NewService ==
    [start |-> "idle", checkInterval |-> NullValue, timers |-> {}, stopped |-> FALSE]

\* the service once start() has returned with proactive check-ins enabled
RunningService ==
    [start |-> "done", checkInterval |-> <<1>>, timers |-> {1}, stopped |-> FALSE]

\* no queryQmd call under way
NoQuery ==
    [pc |-> "none", stdout |-> [kind |-> "unparsable", results |-> <<>>], timer |-> FALSE,
     killed |-> FALSE, settled |-> NullValue, resolveCalls |-> 0]

\* the order of a tick's steps
StepRank(step) ==
    CASE step = "gate" -> 1
      [] step = "context" -> 2
      [] step = "dispatch" -> 3
      [] step = "persist" -> 4

\* a slot with no callback in flight
IdleTick ==
    [pc |-> "idle", state |-> DEFAULT_STATE, inLearning |-> FALSE, threshold |-> 0,
     context |-> EmptyRecentContext, prompt |-> NullValue, log |-> <<>>]

\* what the semantic search answers inside a tick
TickQmdAnswers ==
    {QmdAnswer(FALSE, <<>>, <<>>, <<"topic A">>, <<>>)}

\* the clock advances
Advance ==
    /\ now < T0 + MaxSteps * Quantum
    /\ now' = now + Quantum
    /\ UNCHANGED <<cfg, file, logs, ledger, docs, ticks, nextFireAt, ae, sent, serial,
                   turns, svc, qmd, args, ret>>

TickFire_ignoresGate(i) ==
    /\ ticks[i].pc = "idle"
    /\ \A j \in TickIds : j < i => ticks[j].pc # "idle"
    /\ svc.timers # {}
    /\ now >= nextFireAt
    /\ nextFireAt' = now + cfg.checkIntervalMs
    /\ LET state == loadIdleState(file, now)
           inLearning == isInLearningMode(state, now)
           threshold ==
               IF inLearning THEN cfg.learningIdleThresholdMs
               ELSE cfg.matureIdleThresholdMs
       IN  ticks' = [ticks EXCEPT ![i] =
                        [@ EXCEPT !.pc = "context",
                                  !.state = state,
                                  !.inLearning = inLearning,
                                  !.threshold = threshold,
                                  !.log = <<"gate">>]]
    /\ UNCHANGED <<now, cfg, file, logs, ledger, docs, ae, sent, serial, turns, svc, qmd,
                   args, ret>>

\* part_005:678-695  the interval timer fires and the callback starts: the
\* state is loaded, the threshold chosen and the gate run; when the gate says
\* no the callback is about to return, when it throws the catch of the
\* callback takes over
TickFire(i) ==
    /\ ticks[i].pc = "idle"
    /\ \A j \in TickIds : j < i => ticks[j].pc # "idle"
    /\ svc.timers # {}
    /\ now >= nextFireAt
    /\ nextFireAt' = now + cfg.checkIntervalMs
    /\ LET state == loadIdleState(file, now)
           inLearning == isInLearningMode(state, now)
           threshold ==
               IF inLearning THEN cfg.learningIdleThresholdMs
               ELSE cfg.matureIdleThresholdMs
           shouldSend ==
               shouldSendCheckIn(state, threshold, cfg.sleepStart, cfg.sleepEnd,
                                 Undefined, now)
           gateThrows == ParseTimeThrows(cfg.sleepStart) \/ ParseTimeThrows(cfg.sleepEnd)
       IN  ticks' = [ticks EXCEPT ![i] =
                        [@ EXCEPT !.pc = IF gateThrows THEN "caught"
                                         ELSE IF shouldSend THEN "context" ELSE "done",
                                  !.state = state,
                                  !.inLearning = inLearning,
                                  !.threshold = threshold,
                                  !.log = <<"gate">>]]
    /\ UNCHANGED <<now, cfg, file, logs, ledger, docs, ae, sent, serial, turns, svc, qmd, args, ret>>

\* part_005:699-715  getRecentContext and detectGaps resolve, the time of
\* day is read and the hint composed; with no hint (sleep hours by now) the
\* callback is about to return
TickContext(i) ==
    /\ ticks[i].pc = "context"
    /\ \E q \in TickQmdAnswers :
          LET recentContext ==
                  getRecentContext([useQmd |-> cfg.useQmd, hasConfig |-> TRUE],
                                   q, logs, ledger).context
              gaps == detectGaps(docs)
              timeOfDay == getIdleTimeOfDay(cfg.sleepStart, cfg.sleepEnd, now)
              prompt ==
                  generateCheckInPrompt(IF timeOfDay = "night" THEN "sleep" ELSE timeOfDay,
                                        recentContext, gaps, now)
          IN  IF timeOfDay # "night" /\ PromptThrows(recentContext)
              THEN ticks' = [ticks EXCEPT ![i] =
                                [@ EXCEPT !.pc = "caught", !.log = Append(@, "context")]]
              ELSE ticks' = [ticks EXCEPT ![i] =
                                [@ EXCEPT !.pc = IF prompt = NullValue THEN "done"
                                                 ELSE "trigger",
                                          !.context = recentContext,
                                          !.prompt = prompt,
                                          !.log = Append(@, "context")]]
    /\ UNCHANGED <<now, cfg, file, logs, ledger, docs, nextFireAt, ae, sent, serial,
                   turns, svc, qmd, args, ret>>

TickTrigger_saveFirst(i) ==
    /\ ticks[i].pc = "trigger"
    /\ file' = saveIdleState([ticks[i].state EXCEPT !.lastCheckInMs = now,
                                                    !.checkInCount = @ + 1])
    /\ sent' = Append(sent, [at |-> now, message |-> ticks[i].prompt[1]])
    /\ ticks' = [ticks EXCEPT ![i] =
                    [@ EXCEPT !.pc = "done",
                              !.log = Append(Append(@, "persist"), "dispatch")]]
    /\ serial' = [serial EXCEPT !.lastCheckInMs = now, !.checkInCount = @ + 1]
    /\ UNCHANGED <<now, cfg, logs, ledger, docs, nextFireAt, ae, turns, svc, qmd, args, ret>>

TickTrigger_stampsInteraction(i) ==
    /\ ticks[i].pc = "trigger"
    /\ \E accepted \in BOOLEAN :
          /\ sent' = IF accepted
                     THEN Append(sent, [at |-> now, message |-> ticks[i].prompt[1]])
                     ELSE sent
          /\ ticks' = [ticks EXCEPT ![i] =
                          [@ EXCEPT !.pc = "save",
                                    !.state = [@ EXCEPT !.lastCheckInMs = now,
                                                        !.lastInteractionMs = now,
                                                        !.checkInCount = @ + 1],
                                    !.log = IF accepted THEN Append(@, "dispatch") ELSE @]]
    /\ serial' = [serial EXCEPT !.lastCheckInMs = now, !.checkInCount = @ + 1]
    /\ UNCHANGED <<now, cfg, file, logs, ledger, docs, nextFireAt, ae, turns, svc, qmd, args, ret>>

\* part_005:717-722 with 759-791 triggerProactiveCheckIn: the hint is handed
\* to enqueueSystemEvent, or the import or the enqueue throws and is
\* swallowed; either way the loaded record is stamped and saveIdleState called
TickTrigger(i) ==
    /\ ticks[i].pc = "trigger"
    /\ \E accepted \in BOOLEAN :
          /\ sent' = IF accepted
                     THEN Append(sent, [at |-> now, message |-> ticks[i].prompt[1]])
                     ELSE sent
          /\ ticks' = [ticks EXCEPT ![i] =
                          [@ EXCEPT !.pc = "save",
                                    !.state = [@ EXCEPT !.lastCheckInMs = now,
                                                        !.checkInCount = @ + 1],
                                    !.log = IF accepted THEN Append(@, "dispatch") ELSE @]]
    /\ serial' = [serial EXCEPT !.lastCheckInMs = now, !.checkInCount = @ + 1]
    /\ UNCHANGED <<now, cfg, file, logs, ledger, docs, nextFireAt, ae, turns, svc, qmd, args, ret>>

TickSave_dropsWrite(i) ==
    /\ ticks[i].pc = "save"
    /\ ticks' = [ticks EXCEPT ![i] = [@ EXCEPT !.pc = "done", !.log = Append(@, "persist")]]
    /\ UNCHANGED <<now, cfg, file, logs, ledger, docs, nextFireAt, ae, sent, serial, turns,
                   svc, qmd, args, ret>>

\* idle-service.ts:45-49  the write of the tick's record lands
TickSave(i) ==
    /\ ticks[i].pc = "save"
    /\ file' = saveIdleState(ticks[i].state)
    /\ ticks' = [ticks EXCEPT ![i] = [@ EXCEPT !.pc = "done", !.log = Append(@, "persist")]]
    /\ UNCHANGED <<now, cfg, logs, ledger, docs, nextFireAt, ae, sent, serial, turns,
                   svc, qmd, args, ret>>

\* part_005:722 with idle-service.ts:47-48  saveIdleState rejects: mkdir or
\* the open failed and the file is as it was, or the write failed after the
\* open had emptied the file; the catch of the callback takes over
TickSaveThrows(i) ==
    /\ ticks[i].pc = "save"
    /\ \E k \in {0, 2, Len(FieldOrder)} :
          file' = IF k = Len(FieldOrder) THEN file
                  ELSE PartialFile(WrittenMembers(ticks[i].state, k))
    /\ ticks' = [ticks EXCEPT ![i] = [@ EXCEPT !.pc = "caught"]]
    /\ UNCHANGED <<now, cfg, logs, ledger, docs, nextFireAt, ae, sent, serial, turns,
                   svc, qmd, args, ret>>

\* part_005:694,725-728  the callback returns, after the warning of the
\* catch when a step threw
TickReturn(i) ==
    /\ ticks[i].pc \in {"done", "caught"}
    /\ ticks' = [ticks EXCEPT ![i] = IdleTick]
    /\ UNCHANGED <<now, cfg, file, logs, ledger, docs, nextFireAt, ae, sent, serial,
                   turns, svc, qmd, args, ret>>

----------------------------------------------------------------------------
(* The agent_end handler that records the turn *)

IdleHandler == [pc |-> "idle", state |-> DEFAULT_STATE]

\* part_005:741-742  a turn completes
AgentEnd ==
    /\ ae.pc = "idle"
    /\ turns < MaxTurns
    /\ cfg.proactiveCheckIns
    /\ ae' = [ae EXCEPT !.pc = "load"]
    /\ turns' = turns + 1
    /\ UNCHANGED <<now, cfg, file, logs, ledger, docs, ticks, nextFireAt, sent, serial,
                   svc, qmd, args, ret>>

\* part_005:744-747  the state is loaded and stamped, saveIdleState is called
AgentEndStamp ==
    /\ ae.pc = "load"
    /\ ae' = [pc |-> "save",
              state |-> [loadIdleState(file, now) EXCEPT !.lastInteractionMs = now]]
    /\ serial' = [serial EXCEPT !.lastInteractionMs = now]
    /\ UNCHANGED <<now, cfg, file, logs, ledger, docs, ticks, nextFireAt, sent, turns,
                   svc, qmd, args, ret>>

\* idle-service.ts:45-49  the write of the handler's record lands
AgentEndSave ==
    /\ ae.pc = "save"
    /\ file' = saveIdleState(ae.state)
    /\ ae' = IdleHandler
    /\ UNCHANGED <<now, cfg, logs, ledger, docs, ticks, nextFireAt, sent, serial, turns,
                   svc, qmd, args, ret>>

----------------------------------------------------------------------------
(* The scheduler with the turn-completion hook *)

NoCall == [fn |-> "none"]

NoResult == [done |-> FALSE]

IdleRecord(idle, lastCheckIn, count, age) ==
    [lastInteractionMs |-> T0 - idle, lastCheckInMs |-> lastCheckIn,
     relationshipStartMs |-> T0 - age, checkInCount |-> count]

\* the idle-state records a run may start from
InitialRecords ==
    {IdleRecord(5 * HourMs, 0, 0, 20 * DayMs),
     IdleRecord(3 * HourMs, T0 - 5 * HourMs, 1, DayMs),
     IdleRecord(3 * HourMs, 0, 0, twoWeeksMs - HourMs),
     IdleRecord(0, T0 - DefaultCheckIntervalMs, 2, 20 * DayMs)}

Init ==
    /\ now = T0
    /\ cfg = configSchema_parse(NoOptions)
    /\ file \in {AbsentFile} \cup {saveIdleState(r) : r \in InitialRecords}
    /\ logs = [today |-> LogFile(<<Quote("use sqlite", 10)>>), yesterday |-> AbsentLog]
    /\ ledger = JsonLedger([recent |-> <<"ledger task">>, openThreads |-> <<"ledger thread">>,
                            lastInteraction |-> T0 - 5 * HourMs])
    /\ docs = [user |-> DocFile(<<Line("- ", "Name: Sam", {"name"})>>), rel |-> AbsentDoc]
    /\ ticks = [i \in TickIds |-> IdleTick]
    /\ nextFireAt = T0
    /\ ae = IdleHandler
    /\ sent = <<>>
    /\ serial = loadIdleState(file, T0)
    /\ turns = 0
    /\ svc = RunningService
    /\ qmd = NoQuery
    /\ args = NoCall
    /\ ret = NoResult

Next ==
    \/ Advance
    \/ \E i \in TickIds : TickFire(i)
    \/ \E i \in TickIds : TickContext(i)
    \/ \E i \in TickIds : TickTrigger(i)
    \/ \E i \in TickIds : TickSave(i)
    \/ \E i \in TickIds : TickReturn(i)
    \/ AgentEnd
    \/ AgentEndStamp
    \/ AgentEndSave

Spec == Init /\ [][Next]_vars

----------------------------------------------------------------------------
(* The scheduler where steps of a tick throw: a configured sleep bound that *)
(* is neither a number nor a string, a task ledger whose `recent` is not a *)
(* list, a saveIdleState that rejects; and where a sleep bound is a string *)
(* that names no time of day ("25:00")                                     *)

\* tasks.json that parses, with a text where the list of tasks is expected
MalformedLedger == JsonLedger([recent |-> NotAList, openThreads |-> <<>>])

InitFaults ==
    /\ now = T0
    /\ cfg \in {configSchema_parse(NoOptions),
                 configSchema_parse([f \in {"sleepStart"} |-> OtherTime]),
                 configSchema_parse([f \in {"sleepStart"} |-> StrTime(<<25, 0>>)])}
    /\ file = saveIdleState(IdleRecord(5 * HourMs, 0, 0, 20 * DayMs))
    /\ logs = [today |-> AbsentLog, yesterday |-> AbsentLog]
    /\ ledger \in {JsonLedger([recent |-> <<"ledger task">>]), MalformedLedger}
    /\ docs = [user |-> DocFile(<<Line("- ", "Name: Sam", {"name"})>>), rel |-> AbsentDoc]
    /\ ticks = [i \in TickIds |-> IdleTick]
    /\ nextFireAt = T0
    /\ ae = IdleHandler
    /\ sent = <<>>
    /\ serial = loadIdleState(file, T0)
    /\ turns = 0
    /\ svc = RunningService
    /\ qmd = NoQuery
    /\ args = NoCall
    /\ ret = NoResult

NextFaults ==
    \/ Advance
    \/ \E i \in TickIds : TickFire(i)
    \/ \E i \in TickIds : TickContext(i)
    \/ \E i \in TickIds : TickTrigger(i)
    \/ \E i \in TickIds : TickSave(i)
    \/ \E i \in TickIds : TickSaveThrows(i)
    \/ \E i \in TickIds : TickReturn(i)

SpecFaults == InitFaults /\ [][NextFaults]_vars

----------------------------------------------------------------------------
(* The service: start(), which creates the interval timer after the awaits *)
(* of its QMD initialisation, and stop()                                   *)

\* part_005:670-729  the end of start(): with proactive check-ins enabled
\* setInterval creates a new timer (the first one is timer 1) and
\* checkInterval is overwritten with its handle
SetUpInterval(s) ==
    LET timer == IF s.timers = {} THEN 1
                 ELSE (CHOOSE m \in s.timers : \A k \in s.timers : k <= m) + 1
    IN  IF cfg.proactiveCheckIns
        THEN [s EXCEPT !.start = "done", !.checkInterval = <<timer>>,
                       !.timers = @ \cup {timer}]
        ELSE [s EXCEPT !.start = "done"]

\* part_005:606-612  the host calls start(): with useQmd the call awaits the
\* imports and the qmd commands, otherwise it runs to its end at once
ServiceStart ==
    /\ svc.start = "idle"
    /\ IF cfg.useQmd
       THEN svc' = [svc EXCEPT !.start = "init"] /\ UNCHANGED nextFireAt
       ELSE /\ svc' = SetUpInterval(svc)
            /\ nextFireAt' = IF cfg.proactiveCheckIns THEN now + cfg.checkIntervalMs
                              ELSE nextFireAt
    /\ UNCHANGED <<now, cfg, file, logs, ledger, docs, ticks, ae, sent, serial, turns,
                   qmd, args, ret>>

\* part_005:613-729  the awaits of the QMD initialisation are over (each
\* failure is caught) and start() runs to its end
ServiceInitDone ==
    /\ svc.start = "init"
    /\ svc' = SetUpInterval(svc)
    /\ nextFireAt' = IF cfg.proactiveCheckIns THEN now + cfg.checkIntervalMs ELSE nextFireAt
    /\ UNCHANGED <<now, cfg, file, logs, ledger, docs, ticks, ae, sent, serial, turns,
                   qmd, args, ret>>

\* part_005:731-737  the host calls stop(): the timer whose handle
\* checkInterval holds, if any, is cleared
ServiceStop ==
    /\ svc.start # "idle"
    /\ ~svc.stopped
    /\ svc' = [svc EXCEPT !.stopped = TRUE,
                          !.timers = IF svc.checkInterval # NullValue
                                     THEN @ \ {svc.checkInterval[1]} ELSE @,
                          !.checkInterval = NullValue]
    /\ UNCHANGED <<now, cfg, file, logs, ledger, docs, ticks, nextFireAt, ae, sent,
                   serial, turns, qmd, args, ret>>

InitService ==
    /\ now = T0
    /\ cfg \in {configSchema_parse(NoOptions),
                 configSchema_parse([f \in {"useQmd"} |-> FALSE])}
    /\ file = saveIdleState(IdleRecord(5 * HourMs, 0, 0, 20 * DayMs))
    /\ logs = [today |-> AbsentLog, yesterday |-> AbsentLog]
    /\ ledger = JsonLedger([recent |-> <<"ledger task">>])
    /\ docs = [user |-> DocFile(<<Line("- ", "Name: Sam", {"name"})>>), rel |-> AbsentDoc]
    /\ ticks = [i \in TickIds |-> IdleTick]
    /\ nextFireAt = T0
    /\ ae = IdleHandler
    /\ sent = <<>>
    /\ serial = loadIdleState(file, T0)
    /\ turns = 0
    /\ svc = NewService
    /\ qmd = NoQuery
    /\ args = NoCall
    /\ ret = NoResult

NextService ==
    \/ Advance
    \/ ServiceStart
    \/ ServiceInitDone
    \/ ServiceStop
    \/ \E i \in TickIds : TickFire(i)
    \/ \E i \in TickIds : TickContext(i)
    \/ \E i \in TickIds : TickTrigger(i)
    \/ \E i \in TickIds : TickSave(i)
    \/ \E i \in TickIds : TickReturn(i)

SpecService == InitService /\ [][NextService]_vars

----------------------------------------------------------------------------
(* Functions applied on their own: the inputs are drawn by the initial     *)
(* condition, one action applies the function, the scheduler stays at rest *)

SchedulerAtRest ==
    /\ cfg = configSchema_parse(NoOptions)
    /\ file = AbsentFile
    /\ sent = <<>>
    /\ serial = DEFAULT_STATE
    /\ turns = 0
    /\ svc = RunningService
    /\ qmd = NoQuery
    /\ ticks = [i \in TickIds |-> IdleTick]
    /\ nextFireAt = T0
    /\ ae = IdleHandler
    /\ docs = [user |-> AbsentDoc, rel |-> AbsentDoc]

NoFiles ==
    /\ logs = [today |-> AbsentLog, yesterday |-> AbsentLog]
    /\ ledger = AbsentLedger

\* midnight of the day the run begins
Midnight == 30 * DayMs

\* sleep hours as configured: 00:00-08:00 (the default), 22:00-07:00, 23-7, 13-14
SleepConfigs ==
    {[sleepStart |-> StrTime(<<0, 0>>), sleepEnd |-> StrTime(<<8, 0>>)],
     [sleepStart |-> StrTime(<<22, 0>>), sleepEnd |-> StrTime(<<7, 0>>)],
     [sleepStart |-> NumTime(23), sleepEnd |-> NumTime(7)],
     [sleepStart |-> StrTime(<<13>>), sleepEnd |-> NumTime(14)]}

\* the clock values at which the gate is applied
GateTimes ==
    {Midnight + m : m \in {0, 3 * 60, 6 * 60 + 59, 7 * 60, 8 * 60, 9 * 60, 13 * 60 + 30,
                           21 * 60 + 59, 22 * 60, 23 * 60 + 30}}

GateCalls(t) ==
    {[fn |-> "shouldSendCheckIn",
      state |-> [lastInteractionMs |-> t - idle,
                 lastCheckInMs |-> IF since = 0 THEN 0 ELSE t - since,
                 relationshipStartMs |-> t - 20 * DayMs, checkInCount |-> 0],
      idleThresholdMs |-> threshold,
      sleepStart |-> sc.sleepStart, sleepEnd |-> sc.sleepEnd,
      minGap |-> gap] :
        idle \in {0, 3 * HourMs, 4 * HourMs - 1, 4 * HourMs, 5 * HourMs},
        since \in {0, 1, 29, 30, 59, 60, 61, 3 * HourMs},
        threshold \in {DefaultLearningIdleThresholdMs, DefaultMatureIdleThresholdMs},
        sc \in SleepConfigs,
        gap \in {Undefined, Given(30), Given(2 * HourMs)}}

InitGate ==
    /\ SchedulerAtRest
    /\ NoFiles
    /\ now \in GateTimes
    /\ args \in GateCalls(now)
    /\ ret = NoResult

ApplyShouldSendCheckIn ==
    /\ args.fn = "shouldSendCheckIn"
    /\ ~ret.done
    /\ ret' = [done |-> TRUE,
               value |-> shouldSendCheckIn(args.state, args.idleThresholdMs, args.sleepStart,
                                           args.sleepEnd, args.minGap, now)]
    /\ UNCHANGED <<now, cfg, file, logs, ledger, docs, ticks, nextFireAt, ae, sent, serial,
                   turns, svc, qmd, args>>

NextGate == ApplyShouldSendCheckIn

SpecGate == InitGate /\ [][NextGate]_vars

\* the sleep bounds the evaluator is applied to
SleepBounds ==
    {StrTime(<<0, 0>>), StrTime(<<7, 0>>), StrTime(<<8, 0>>), StrTime(<<22, 0>>),
     StrTime(<<23, 30>>), StrTime(<<7>>), NumTime(23), NumTime(0)}

InitSleep ==
    /\ SchedulerAtRest
    /\ NoFiles
    /\ now \in {Midnight + m : m \in 0..(DayMs - 1)}
    /\ args \in {[fn |-> "isInSleepHours", sleepStart |-> a, sleepEnd |-> b] :
                    a \in SleepBounds, b \in SleepBounds}
    /\ ret = NoResult

ApplyIsInSleepHours ==
    /\ args.fn = "isInSleepHours"
    /\ ~ret.done
    /\ ret' = [done |-> TRUE, value |-> isInSleepHours(args.sleepStart, args.sleepEnd, now)]
    /\ UNCHANGED <<now, cfg, file, logs, ledger, docs, ticks, nextFireAt, ae, sent, serial,
                   turns, svc, qmd, args>>

NextSleep == ApplyIsInSleepHours

SpecSleep == InitSleep /\ [][NextSleep]_vars

\* what the four queries may resolve to (at most 3, 3, 1 and 2 snippets)
ContextQmdAnswers ==
    {QmdAnswer(FALSE, a, b, c, d) :
        a \in {<<>>, <<"task A", "task B">>}, b \in {<<>>, <<"thread A">>},
        c \in {<<>>, <<"topic A">>}, d \in {<<>>, <<"decision A", "decision B">>}}
    \cup {QmdAnswer(TRUE, <<>>, <<>>, <<>>, <<>>)}

ContextLogs ==
    {[today |-> a, yesterday |-> b] :
        a \in {AbsentLog, LogFile(<<>>), LogFile(<<Quote("use sqlite", 10)>>),
               LogFile(<<Quote("go with plan A", 14), Quote("", 0),
                         Quote("a long line", 150), Quote("ship it", 7)>>)},
        b \in {AbsentLog, LogFile(<<Quote("try the cache", 13)>>)}}

ContextLedgers ==
    {AbsentLedger, InvalidLedger,
     JsonLedger([recent |-> <<"ledger task">>, openThreads |-> <<"ledger thread">>,
                 lastInteraction |-> T0 - DayMs]),
     JsonLedger([recent |-> <<"ledger task">>])}

InitContext ==
    /\ SchedulerAtRest
    /\ now = T0
    /\ logs \in ContextLogs
    /\ ledger \in ContextLedgers
    /\ args \in {[fn |-> "getRecentContext", c |-> [useQmd |-> u, hasConfig |-> h], q |-> q] :
                    u \in BOOLEAN, h \in BOOLEAN, q \in ContextQmdAnswers}
    /\ ret = NoResult

ApplyGetRecentContext ==
    /\ args.fn = "getRecentContext"
    /\ ~ret.done
    /\ ret' = [done |-> TRUE, value |-> getRecentContext(args.c, args.q, logs, ledger)]
    /\ UNCHANGED <<now, cfg, file, logs, ledger, docs, ticks, nextFireAt, ae, sent, serial,
                   turns, svc, qmd, args>>

NextContext == ApplyGetRecentContext

SpecContext == InitContext /\ [][NextContext]_vars

----------------------------------------------------------------------------
(* The idle-state store on its own: saveIdleState taken step by step, with  *)
(* the failures of mkdir and writeFile and the death of the process, then  *)
(* loadIdleState on what is left                                           *)

\* the records handed to saveIdleState
StoreRecords ==
    {[lastInteractionMs |-> a, lastCheckInMs |-> b, relationshipStartMs |-> c,
      checkInCount |-> d] :
        a \in {0, 7, T0 - 5 * HourMs, T0}, b \in {0, 10, T0 - HourMs},
        c \in {0, T0 - 20 * DayMs}, d \in {0, 1, 12}}

\* what the store may hold when a call begins
StoreFiles ==
    {AbsentFile, UnreadableFile, PartialFile(NoMembers),
     PartialFile(WrittenMembers(IdleRecord(HourMs, 0, 3, DayMs), 2)),
     saveIdleState(IdleRecord(HourMs, 0, 3, DayMs)),
     JsonFile(WrittenMembers(IdleRecord(HourMs, 0, 3, DayMs), 2))}

StoreCall(step, value) == [done |-> step \in {"threw", "crashed", "loaded"},
                           step |-> step, value |-> value]

InitStore ==
    /\ cfg = configSchema_parse(NoOptions)
    /\ file \in StoreFiles
    /\ NoFiles
    /\ docs = [user |-> AbsentDoc, rel |-> AbsentDoc]
    /\ ticks = [i \in TickIds |-> IdleTick]
    /\ nextFireAt = T0
    /\ ae = IdleHandler
    /\ sent = <<>>
    /\ serial = DEFAULT_STATE
    /\ turns = 0
    /\ svc = RunningService
    /\ qmd = NoQuery
    /\ now \in {T0, T0 + Quantum}
    /\ args \in {[fn |-> "saveIdleState", state |-> r, before |-> file] : r \in StoreRecords}
                 \cup {[fn |-> "loadIdleState", before |-> file]}
    /\ ret = StoreCall("call", NullValue)

\* idle-service.ts:47  mkdir resolves, or rejects and saveIdleState throws
SaveMkdir ==
    /\ args.fn = "saveIdleState"
    /\ ret.step = "call"
    /\ \E ok \in BOOLEAN : ret' = StoreCall(IF ok THEN "open" ELSE "threw", NullValue)
    /\ UNCHANGED <<now, cfg, file, logs, ledger, docs, ticks, nextFireAt, ae, sent, serial,
                   turns, svc, qmd, args>>

\* idle-service.ts:48  writeFile opens the file for writing, which empties
\* it, or the open fails and the file is as it was
SaveOpen ==
    /\ args.fn = "saveIdleState"
    /\ ret.step = "open"
    /\ \E ok \in BOOLEAN :
          IF ok
          THEN file' = PartialFile(NoMembers) /\ ret' = StoreCall("write", NullValue)
          ELSE file' = file /\ ret' = StoreCall("threw", NullValue)
    /\ UNCHANGED <<now, cfg, logs, ledger, docs, ticks, nextFireAt, ae, sent, serial,
                   turns, svc, qmd, args>>

\* idle-service.ts:48  writeFile writes the text: all of it, or the first k
\* members of it before the write fails (no space left, an I/O error)
SaveWrite ==
    /\ args.fn = "saveIdleState"
    /\ ret.step = "write"
    /\ \E k \in {0, 2, Len(FieldOrder)} :
          IF k = Len(FieldOrder)
          THEN file' = saveIdleState(args.state) /\ ret' = StoreCall("saved", NullValue)
          ELSE /\ file' = PartialFile(WrittenMembers(args.state, k))
               /\ ret' = StoreCall("threw", NullValue)
    /\ UNCHANGED <<now, cfg, logs, ledger, docs, ticks, nextFireAt, ae, sent, serial,
                   turns, svc, qmd, args>>

\* idle-service.ts:45-49  the process dies between two steps of the save
SaveCrash ==
    /\ args.fn = "saveIdleState"
    /\ ret.step \in {"call", "open", "write"}
    /\ ret' = StoreCall("crashed", NullValue)
    /\ UNCHANGED <<now, cfg, file, logs, ledger, docs, ticks, nextFireAt, ae, sent, serial,
                   turns, svc, qmd, args>>

\* idle-service.ts:29-43  loadIdleState on its own, or right after a save
\* that completed
ApplyLoadIdleState ==
    /\ \/ args.fn = "loadIdleState" /\ ret.step = "call"
       \/ args.fn = "saveIdleState" /\ ret.step = "saved"
    /\ ret' = StoreCall("loaded", <<loadIdleState(file, now)>>)
    /\ UNCHANGED <<now, cfg, file, logs, ledger, docs, ticks, nextFireAt, ae, sent, serial,
                   turns, svc, qmd, args>>

NextStore ==
    \/ SaveMkdir
    \/ SaveOpen
    \/ SaveWrite
    \/ SaveCrash
    \/ ApplyLoadIdleState

SpecStore == InitStore /\ [][NextStore]_vars

----------------------------------------------------------------------------
(* One semantic-search query: the qmd child process, the timeout timer and *)
(* the promise that queryQmd returns                                       *)

\* what qmd printed: a JSON list of results, a JSON value that is not a
\* list, or a text that JSON.parse rejects.  A result is null, or an object
\* whose snippet is absent, a number, or a text (kept as trimmed).
QmdOutput(kind, results) == [kind |-> kind, results |-> results]

NoOutput == QmdOutput("unparsable", <<>>)

TextResult(trimmed) == [kind |-> "text", trimmed |-> trimmed]

\* r.snippet?.trim() throws for a null result and for a snippet that is
\* not a text
MapThrows(results) ==
    \E j \in 1..Len(results) : results[j].kind \in {"null", "number"}

\* .map(r => r.snippet?.trim()).filter(Boolean)
RECURSIVE TruthySnippets(_)
TruthySnippets(results) ==
    IF results = <<>> THEN <<>>
    ELSE IF Head(results).kind = "text" /\ Head(results).trimmed # ""
         THEN <<Head(results).trimmed>> \o TruthySnippets(Tail(results))
         ELSE TruthySnippets(Tail(results))

ParseSnippets_noSlice(output, maxResults) ==
    IF output.kind # "list" THEN <<>>
    ELSE IF MapThrows(output.results) THEN <<>>
    ELSE TruthySnippets(output.results)

\* qmd-context.ts:76-85  JSON.parse(stdout), map, filter, slice, and the
\* catch that answers [] when any of them throws
ParseSnippets(output, maxResults) ==
    IF output.kind # "list" THEN <<>>
    ELSE IF MapThrows(output.results) THEN <<>>
    ELSE SliceHead(TruthySnippets(output.results), maxResults)

\* qmd-context.ts:104-133  the maxResults of the four queries
MaxResultsOf(intent) ==
    CASE intent = "tasks" -> 3
      [] intent = "threads" -> 3
      [] intent = "topic" -> 1
      [] intent = "decisions" -> 2

\* resolve(v): the first call settles the promise, later calls do nothing
Resolve(q, v) ==
    [q EXCEPT !.settled = IF @ = NullValue THEN <<v>> ELSE @, !.resolveCalls = @ + 1]

\* qmd-context.ts:49-68  spawn, the listeners, setTimeout
QmdSpawn ==
    /\ args.fn = "queryQmd"
    /\ qmd = NoQuery
    /\ qmd' = [qmd EXCEPT !.pc = "spawned", !.stdout = NoOutput, !.timer = TRUE]
    /\ UNCHANGED <<now, cfg, file, logs, ledger, docs, ticks, nextFireAt, ae, sent, serial,
                   turns, svc, args, ret>>

\* qmd-context.ts:57-59  the child prints its output
QmdStdout ==
    /\ qmd.pc = "spawned"
    /\ ~qmd.killed
    /\ qmd.stdout = NoOutput
    /\ qmd' = [qmd EXCEPT !.stdout = args.output]
    /\ UNCHANGED <<now, cfg, file, logs, ledger, docs, ticks, nextFireAt, ae, sent, serial,
                   turns, svc, args, ret>>

\* qmd-context.ts:88-91  the child could not be spawned: 'error'
QmdError ==
    /\ qmd.pc = "spawned"
    /\ ~qmd.killed
    /\ qmd.stdout = NoOutput
    /\ qmd' = Resolve([qmd EXCEPT !.pc = "errored", !.timer = FALSE], <<>>)
    /\ UNCHANGED <<now, cfg, file, logs, ledger, docs, ticks, nextFireAt, ae, sent, serial,
                   turns, svc, args, ret>>

\* qmd-context.ts:65-68  the timer fires: the child is killed, resolve([])
QmdTimeout ==
    /\ qmd.pc = "spawned"
    /\ qmd.timer
    /\ qmd' = Resolve([qmd EXCEPT !.timer = FALSE, !.killed = TRUE], <<>>)
    /\ UNCHANGED <<now, cfg, file, logs, ledger, docs, ticks, nextFireAt, ae, sent, serial,
                   turns, svc, args, ret>>

\* qmd-context.ts:70-86  'close': the child has gone, with exit code 0 or
\* not (never 0 once killed or after a failed spawn)
QmdClose ==
    /\ qmd.pc \in {"spawned", "errored"}
    /\ \E code \in {0, 1} :
          /\ (qmd.killed \/ qmd.pc = "errored") => code # 0
          /\ qmd' = Resolve([qmd EXCEPT !.pc = "closed", !.timer = FALSE],
                            IF code # 0 THEN <<>>
                            ELSE ParseSnippets(qmd.stdout, MaxResultsOf(args.intent)))
    /\ UNCHANGED <<now, cfg, file, logs, ledger, docs, ticks, nextFireAt, ae, sent, serial,
                   turns, svc, args, ret>>

\* qmd-context.ts:104-173  Promise.all resumes extractQmdContext with the
\* settled value (the other three queries found nothing) and
\* extractCombinedContext returns
QmdAwaited ==
    /\ args.fn = "queryQmd"
    /\ qmd.pc # "none"
    /\ qmd.settled # NullValue
    /\ ~ret.done
    /\ LET v == qmd.settled[1]
           answer ==
               QmdAnswer(FALSE,
                         IF args.intent = "tasks" THEN v ELSE <<>>,
                         IF args.intent = "threads" THEN v ELSE <<>>,
                         IF args.intent = "topic" THEN v ELSE <<>>,
                         IF args.intent = "decisions" THEN v ELSE <<>>)
       IN  ret' = [done |-> TRUE, value |-> extractCombinedContext(answer),
                   snippets |-> v]
    /\ UNCHANGED <<now, cfg, file, logs, ledger, docs, ticks, nextFireAt, ae, sent, serial,
                   turns, svc, qmd, args>>

\* index.ts:1025-1039  the execFile variant: the promisified call rejects
\* (timeout, exit code, spawn error) or resolves with stdout
ApplyQueryQmdExecFile ==
    /\ args.fn = "queryQmd_execFile"
    /\ ~ret.done
    /\ \E rejected \in BOOLEAN :
          LET v == IF rejected THEN <<>>
                   ELSE ParseSnippets(args.output, MaxResultsOf(args.intent))
          IN  ret' = [done |-> TRUE, value |-> EmptyQmdContext, snippets |-> v]
    /\ UNCHANGED <<now, cfg, file, logs, ledger, docs, ticks, nextFireAt, ae, sent, serial,
                   turns, svc, qmd, args>>

\* what qmd may print
QmdOutputs ==
    {QmdOutput("unparsable", <<"Error: no index">>), QmdOutput("object", <<>>),
     QmdOutput("list", <<>>),
     QmdOutput("list", <<TextResult("snippet A")>>),
     QmdOutput("list", <<TextResult("snippet A"), TextResult(""), [kind |-> "absent"],
                         TextResult("snippet B"), TextResult("snippet C"),
                         TextResult("snippet D")>>),
     QmdOutput("list", <<TextResult("snippet A"), [kind |-> "null"]>>),
     QmdOutput("list", <<[kind |-> "number"], TextResult("snippet B")>>)}

InitQmd ==
    /\ SchedulerAtRest
    /\ NoFiles
    /\ now = T0
    /\ args \in {[fn |-> f, intent |-> i, output |-> o] :
                    f \in {"queryQmd", "queryQmd_execFile"},
                    i \in {"tasks", "threads", "topic", "decisions"}, o \in QmdOutputs}
    /\ ret = NoResult

NextQmd ==
    \/ QmdSpawn
    \/ QmdStdout
    \/ QmdError
    \/ QmdTimeout
    \/ QmdClose
    \/ QmdAwaited
    \/ ApplyQueryQmdExecFile

\* an armed timer fires unless it is cleared
SpecQmd == InitQmd /\ [][NextQmd]_vars /\ WF_vars(QmdTimeout)

----------------------------------------------------------------------------
(* The handlers of the conversation turn: before_agent_start, the agent_end *)
(* analysis, the agent_end idle update and session_end                      *)

\* part_005:87-91 parseTimeToHour, for a number or a string
parseTimeToHour(time) == IF time.kind = "number" THEN time.hours ELSE time.parts[1]

\* part_005:93-110 getTimeOfDay, at clock value t
getTimeOfDay(sleepStart, sleepEnd, t) ==
    LET hour == currentMinutes(t) \div 60
        startHour == parseTimeToHour(sleepStart)
        endHour == parseTimeToHour(sleepEnd)
        asleep == IF startHour <= endHour
                  THEN hour >= startHour /\ hour < endHour
                  ELSE hour >= startHour \/ hour < endHour
    IN  IF asleep THEN "sleep"
        ELSE IF hour >= 8 /\ hour < 12 THEN "morning"
        ELSE IF hour >= 12 /\ hour < 18 THEN "afternoon"
        ELSE "evening"

\* part_005:112-114 isInSleepHours (the hour-based one of the plugin file)
index_isInSleepHours(sleepStart, sleepEnd, t) ==
    getTimeOfDay(sleepStart, sleepEnd, t) = "sleep"

\* part_005:912-916 extractKeyPatterns: the first ten "- " and "### "
\* lines, null when there is none
extractKeyPatterns(relational) ==
    SliceHead(SelectSeq(relational.lines, LAMBDA l : l.mark \in {"- ", "### "}), 10)

\* how a handler ended: an exception left it, or its catch took one, and
\* what it returned to the host
HookOutcome(escaped, caught, result) ==
    [escaped |-> escaped, caught |-> caught, result |-> result]

\* part_005:347-394 the before_agent_start handler; the sleep test of
\* line 351 runs before the try of line 355
before_agent_start(event, c, q, lg, ld, d, t) ==
    IF ~event.longPrompt THEN HookOutcome(FALSE, FALSE, <<>>)
    ELSE IF ParseTimeThrows(c.sleepStart) \/ ParseTimeThrows(c.sleepEnd)
    THEN HookOutcome(TRUE, FALSE, <<>>)
    ELSE LET relationalPart ==
                 IF d.rel.kind = "text" /\ extractKeyPatterns(d.rel) # <<>>
                 THEN <<[kind |-> "relationship-context",
                         lines |-> extractKeyPatterns(d.rel)]>>
                 ELSE <<>>
             awake == c.checkIns /\ ~index_isInSleepHours(c.sleepStart, c.sleepEnd, t)
             recentContext ==
                 getRecentContext([useQmd |-> c.useQmd, hasConfig |-> TRUE],
                                  q, lg, ld).context
             checkInPrompt ==
                 generateCheckInPrompt(getTimeOfDay(c.sleepStart, c.sleepEnd, t),
                                       recentContext, detectGaps(d), t)
         IN  IF awake /\ PromptThrows(recentContext)
             THEN HookOutcome(FALSE, TRUE, <<>>)
             ELSE HookOutcome(FALSE, FALSE,
                              relationalPart \o (IF awake THEN checkInPrompt ELSE <<>>))

\* part_005:741-751 the agent_end idle update: everything after the
\* proactiveCheckIns test is inside a try with an empty catch
agent_end_idle_update(c, saveFails) ==
    IF ~c.proactiveCheckIns THEN HookOutcome(FALSE, FALSE, <<>>)
    ELSE HookOutcome(FALSE, saveFails, <<>>)

\* part_005:448-458 the session_end handler: detectGaps, then recordGaps
\* when there is a gap, inside a try
session_end(c, d, writeFails) ==
    HookOutcome(FALSE, writeFails /\ Len(detectGaps(d)) > 0, <<>>)

----------------------------------------------------------------------------
(* The significance analysis of agent_end and the files it writes *)

\* a passage quoted from the transcript: its first line, its length and
\* the keywords of detectGaps that it contains
Passage(text, len, words) == [text |-> text, len |-> len, words |-> words]

\* f applied to every element of xs
MapSeq(xs, f(_)) == [j \in 1..Len(xs) |-> f(xs[j])]

\* how many elements of xs equal x
Count(xs, x) == Cardinality({j \in 1..Len(xs) : xs[j] = x})

\* [...new Set(xs)]: the first occurrence of every element, in order
RECURSIVE Dedupe(_)
Dedupe(xs) ==
    IF xs = <<>> THEN <<>>
    ELSE LET front == Dedupe(SubSeq(xs, 1, Len(xs) - 1))
         IN  IF Count(front, xs[Len(xs)]) > 0 THEN front ELSE Append(front, xs[Len(xs)])

\* part_005:843-870 detectSignificantMoments: one CRITICAL moment for every
\* explicit marker in the text, one HIGH moment for every decision pattern
\* that matches (text.markers and text.decisions are their quotes)
detectSignificantMoments(text) ==
    MapSeq(text.markers,
           LAMBDA q : [quote |-> q, weight |-> "CRITICAL", category |-> "DECISION",
                       why |-> "Explicitly marked"])
    \o MapSeq(text.decisions,
              LAMBDA q : [quote |-> q, weight |-> "HIGH", category |-> "DECISION",
                          why |-> "Decision or direction established"])

\* part_005:872-881 detectRelationalPatterns: the quote of every pattern
\* that matches
detectRelationalPatterns(text) == text.relational

\* part_005:905-910 inferField
inferField(match) ==
    IF "name" \in match THEN "Name"
    ELSE IF "work" \in match \/ "job" \in match THEN "Work"
    ELSE "Background"

\* part_005:883-895 detectIdentityPatterns
detectIdentityPatterns(text) ==
    MapSeq(text.identity, LAMBDA m : [field |-> inferField(m.match), value |-> m.quote])

\* part_005:817-828 extractTasks
extractTasks(text) == SliceHead(Dedupe(text.taskMatches), 5)

\* part_005:830-841 extractThreads
extractThreads(text) == SliceHead(Dedupe(text.threadMatches), 5)

\* part_005:930  the entry written for a moment at clock value t
MomentEntry(m, t) ==
    [text |-> m.quote.text, len |-> m.quote.len, time |-> t, weight |-> m.weight,
     why |-> m.why]

writeSignificantMoments_skipsKnown(log, moments, t) ==
    LET content == IF log.kind = "text" THEN log.decisions ELSE <<>>
        fresh == SelectSeq(moments, LAMBDA m : Count(content, MomentEntry(m, t)) = 0)
    IN  LogFile(content \o MapSeq(fresh, LAMBDA m : MomentEntry(m, t)))

\* part_005:922-933 writeSignificantMoments: the dated log after the write
writeSignificantMoments(log, moments, t) ==
    LET content == IF log.kind = "text" THEN log.decisions ELSE <<>>
    IN  LogFile(content \o MapSeq(moments, LAMBDA m : MomentEntry(m, t)))

\* the date of clock value t as the headings carry it
DateHeading(t) == Line("### ", ToString(t \div DayMs), {})

GrowthMarkers == Line("## ", "Growth Markers", {})

\* part_005:1010-1035 defaultRelational
defaultRelational(t) ==
    <<Line("# ", "Relational Dynamics - Bernard & USER", {}),
      Line("", "Last updated", {}),
      Line("## ", "Communication Patterns", {"communication"}),
      Line("", "(Populated as Bernard learns)", {}),
      GrowthMarkers,
      Line("", "(Significant moments)", {}),
      Line("## ", "Trust Calibration", {}),
      Line("", "(How trust has been built)", {})>>

\* part_005:935-949 updateRelational: the block goes right under the first
\* "## Growth Markers", or at the end when there is no such heading
updateRelational(doc, updates, t) ==
    LET content == IF doc.kind = "text" THEN doc.lines ELSE defaultRelational(t)
        block == <<DateHeading(t)>>
                 \o MapSeq(updates, LAMBDA u : Line("- ", u.text, u.words))
        at == {j \in 1..Len(content) : content[j] = GrowthMarkers}
    IN  IF at # {}
        THEN LET k == CHOOSE j \in at : \A h \in at : j <= h
             IN  DocFile(SubSeq(content, 1, k) \o block
                         \o SubSeq(content, k + 1, Len(content)))
        ELSE DocFile(content \o block)

\* part_005:958  "- **field**: value"; the lower-cased label is part of
\* the line
UserLine(u) ==
    Line("- ", u.value.text,
         u.value.words \cup (IF u.field = "Name" THEN {"name"}
                             ELSE IF u.field = "Work" THEN {"work"} ELSE {}))

\* part_005:951-961 updateUser
updateUser(doc, updates, t) ==
    LET content == IF doc.kind = "text" THEN doc.lines
                   ELSE <<Line("# ", "USER Context", {})>>
    IN  DocFile(content \o <<DateHeading(t)>> \o MapSeq(updates, UserLine))

\* part_005:248-272 recordTaskContext: the members of the ledger are kept,
\* recent, openThreads and lastInteraction are replaced
recordTaskContext(ld, tasks, threads, t) ==
    LET existing == IF ld.kind = "json" THEN ld.data ELSE [f \in {} |-> <<>>]
        replaced == [recent |-> SliceHead(tasks, 5), openThreads |-> SliceHead(threads, 5),
                     lastInteraction |-> t]
    IN  JsonLedger([f \in DOMAIN existing \cup DOMAIN replaced |->
                       IF f \in DOMAIN replaced THEN replaced[f] ELSE existing[f]])

\* part_005:401-441 the agent_end analysis: the four files after the
\* handler and how it ended; `fails` names the write that rejects, if any
agent_end_analysis(event, fails, lg, d, ld, t) ==
    LET text == event.transcript
        moments == detectSignificantMoments(text)
        relationalUpdates == detectRelationalPatterns(text)
        userUpdates == detectIdentityPatterns(text)
        tasks == extractTasks(text)
        threads == extractThreads(text)
        writes ==
            (IF Len(moments) > 0 THEN <<"log">> ELSE <<>>)
            \o (IF Len(relationalUpdates) > 0 THEN <<"relational">> ELSE <<>>)
            \o (IF Len(userUpdates) > 0 THEN <<"user">> ELSE <<>>)
            \o (IF Len(tasks) > 0 \/ Len(threads) > 0 THEN <<"ledger">> ELSE <<>>)
        failedAt == {j \in 1..Len(writes) : writes[j] = fails}
        done == IF failedAt = {} THEN writes
                ELSE SubSeq(writes, 1, (CHOOSE j \in failedAt : TRUE) - 1)
        wrote(w) == Count(done, w) > 0
    IN  IF ~event.success \/ ~event.hasMessages \/ text.chars < 50
        THEN [outcome |-> HookOutcome(FALSE, FALSE, <<>>), logs |-> lg, docs |-> d,
              ledger |-> ld]
        ELSE [outcome |-> HookOutcome(FALSE, failedAt # {}, <<>>),
              logs |-> IF wrote("log")
                       THEN [lg EXCEPT !.today = writeSignificantMoments(@, moments, t)]
                       ELSE lg,
              docs |-> [user |-> IF wrote("user") THEN updateUser(d.user, userUpdates, t)
                                 ELSE d.user,
                        rel |-> IF wrote("relational")
                                THEN updateRelational(d.rel, relationalUpdates, t)
                                ELSE d.rel],
              ledger |-> IF wrote("ledger") THEN recordTaskContext(ld, tasks, threads, t)
                         ELSE ld]

----------------------------------------------------------------------------
(* The handlers on their own: the configuration, the files and the call    *)
(* are drawn by the initial condition; the analysis may run again on the   *)
(* same transcript                                                         *)

\* how many times the analysis runs on one transcript
MaxAnalyses == 2

\* the plugin options the handlers are registered under
HookOptions ==
    {NoOptions,
     [f \in {"sleepStart", "sleepEnd"} |->
         IF f = "sleepStart" THEN StrTime(<<22, 0>>) ELSE StrTime(<<7, 0>>)],
     [f \in {"sleepStart", "sleepEnd"} |->
         IF f = "sleepStart" THEN NumTime(23) ELSE NumTime(7)],
     [f \in {"sleepStart", "sleepEnd"} |->
         IF f = "sleepStart" THEN StrTime(<<22, 30>>) ELSE StrTime(<<7, 30>>)],
     [f \in {"sleepStart"} |-> OtherTime],
     [f \in {"sleepEnd"} |-> OtherTime],
     [f \in {"checkIns"} |-> FALSE],
     [f \in {"checkIns", "sleepStart"} |-> IF f = "checkIns" THEN FALSE ELSE OtherTime],
     [f \in {"proactiveCheckIns"} |-> FALSE],
     [f \in {"useQmd"} |-> FALSE]}

\* the text of a conversation as the detectors see it
Transcript(chars, markers, decisions, relational, identity, taskMatches, threadMatches) ==
    [chars |-> chars, markers |-> markers, decisions |-> decisions,
     relational |-> relational, identity |-> identity, taskMatches |-> taskMatches,
     threadMatches |-> threadMatches]

\* a few words, nothing to detect
ShortTranscript == Transcript(20, <<>>, <<>>, <<>>, <<>>, <<>>, <<>>)

\* long enough, nothing to detect
PlainTranscript == Transcript(120, <<>>, <<>>, <<>>, <<>>, <<>>, <<>>)

\* under 150 characters: every quote is the whole text, so the marker and
\* the decision pattern give two moments with one quote
BriefTranscript ==
    LET whole == Passage("## USER remember this: we decided to use sqlite", 60, {})
    IN  Transcript(60, <<whole>>, <<whole>>, <<>>, <<>>, <<>>, <<>>)

\* tasks and threads only; a task is named twice, six threads are open
TaskTranscript ==
    Transcript(300, <<>>, <<>>, <<>>, <<>>,
               <<"fix the login bug", "write the report", "fix the login bug">>,
               <<"thread 1", "thread 2", "thread 3", "thread 4", "thread 5", "thread 6">>)

\* something of every kind
RichTranscript ==
    Transcript(900,
               <<Passage("remember this: deploy on Fridays", 180, {})>>,
               <<Passage("we decided to use sqlite", 170, {})>>,
               <<Passage("i disagree with that approach", 160, {"disagree"}),
                 Passage("i prefer short answers", 150, {})>>,
               <<[match |-> {"name"}, quote |-> Passage("my name is Sam", 150, {"name"})],
                 [match |-> {"job"}, quote |-> Passage("my job is teaching", 150, {})],
                 [match |-> {}, quote |-> Passage("i grew up in Lyon", 150, {})]>>,
               <<"fix the login bug">>, <<>>)

Transcripts ==
    {ShortTranscript, PlainTranscript, BriefTranscript, TaskTranscript, RichTranscript}

\* the dated log, RELATIONAL.md, USER.md and tasks.json before the call
HookLogs ==
    {[today |-> a, yesterday |-> AbsentLog] :
        a \in {AbsentLog,
               LogFile(<<MomentEntry([quote |-> Passage("we decided to use sqlite", 170, {}),
                                      weight |-> "HIGH",
                                      why |-> "Decision or direction established"],
                                     T0 - HourMs)>>)}}

HookDocs ==
    {[user |-> u, rel |-> r] :
        u \in {AbsentDoc, DocFile(<<Line("- ", "Name: Sam", {"name"})>>)},
        r \in {AbsentDoc, DocFile(defaultRelational(T0 - DayMs)),
               DocFile(<<Line("- ", "i prefer short answers", {})>>)}}

HookLedgers ==
    {AbsentLedger, InvalidLedger, MalformedLedger,
     JsonLedger([recent |-> <<"old task">>, openThreads |-> <<"old thread">>,
                 lastInteraction |-> T0 - DayMs, note |-> <<"kept">>])}

\* the files a call started from
FilesNow == [logs |-> logs, docs |-> docs, ledger |-> ledger]

HookQmdAnswers ==
    {QmdAnswer(TRUE, <<>>, <<>>, <<>>, <<>>),
     QmdAnswer(FALSE, <<"task A">>, <<>>, <<>>, <<>>)}

HookCalls ==
    {[fn |-> "before_agent_start", event |-> [longPrompt |-> l], q |-> q] :
        l \in BOOLEAN, q \in HookQmdAnswers}
    \cup {[fn |-> "agent_end", event |-> [success |-> s, hasMessages |-> m, transcript |-> x],
           fails |-> f] :
             s \in BOOLEAN, m \in BOOLEAN, x \in Transcripts,
             f \in {"none", "log", "relational", "user", "ledger"}}
    \cup {[fn |-> "agent_end_idle_update", saveFails |-> f] : f \in BOOLEAN}
    \cup {[fn |-> "session_end", writeFails |-> f] : f \in BOOLEAN}

\* a call that has not returned; `first` is the ledger after the first
\* run of the analysis
NoOutcome == [done |-> FALSE, value |-> NullValue, first |-> NullValue]

InitHooks ==
    /\ file = AbsentFile
    /\ sent = <<>>
    /\ serial = DEFAULT_STATE
    /\ turns = 0
    /\ svc = RunningService
    /\ qmd = NoQuery
    /\ ticks = [i \in TickIds |-> IdleTick]
    /\ nextFireAt = T0
    /\ ae = IdleHandler
    /\ \E call \in HookCalls :
          /\ now \in IF call.fn = "before_agent_start"
                     THEN {T0 - 15 * HourMs, T0 - 12 * HourMs, T0}
                     ELSE {T0 - 12 * HourMs, T0}
          /\ cfg \in IF call.fn \in {"before_agent_start", "agent_end_idle_update"}
                     THEN {configSchema_parse(raw) : raw \in HookOptions}
                     ELSE {configSchema_parse(NoOptions)}
          /\ logs \in IF call.fn = "agent_end" THEN HookLogs
                      ELSE {[today |-> AbsentLog, yesterday |-> AbsentLog]}
          /\ docs \in IF call.fn = "agent_end_idle_update"
                      THEN {[user |-> AbsentDoc, rel |-> AbsentDoc]} ELSE HookDocs
          /\ ledger \in IF call.fn \in {"agent_end", "before_agent_start"} THEN HookLedgers
                        ELSE {AbsentLedger}
          /\ args = [call |-> call, before |-> FilesNow, start |-> now]
    /\ ret = NoOutcome

\* part_005:346  the handler is registered when cfg.autoInject
ApplyBeforeAgentStart ==
    /\ args.call.fn = "before_agent_start"
    /\ cfg.autoInject
    /\ ~ret.done
    /\ ret' = [ret EXCEPT
                 !.done = TRUE,
                 !.value = before_agent_start(args.call.event, cfg, args.call.q, logs,
                                              ledger, docs, now)]
    /\ UNCHANGED <<now, cfg, file, logs, ledger, docs, ticks, nextFireAt, ae, sent, serial,
                   turns, svc, qmd, args>>

\* part_005:401-441  one run of the analysis; the host may hand the same
\* messages to the handler again
ApplyAgentEndAnalysis ==
    /\ args.call.fn = "agent_end"
    /\ turns < MaxAnalyses
    /\ LET r == agent_end_analysis(args.call.event, args.call.fails, logs, docs, ledger, now)
       IN  /\ logs' = r.logs
           /\ docs' = r.docs
           /\ ledger' = r.ledger
           /\ ret' = [done |-> TRUE, value |-> r.outcome,
                      first |-> IF turns = 0 THEN <<r.ledger>> ELSE ret.first]
    /\ turns' = turns + 1
    /\ UNCHANGED <<now, cfg, file, ticks, nextFireAt, ae, sent, serial, svc, qmd, args>>

\* part_005:741-751
ApplyAgentEndIdleUpdate ==
    /\ args.call.fn = "agent_end_idle_update"
    /\ ~ret.done
    /\ ret' = [ret EXCEPT !.done = TRUE,
                          !.value = agent_end_idle_update(cfg, args.call.saveFails)]
    /\ UNCHANGED <<now, cfg, file, logs, ledger, docs, ticks, nextFireAt, ae, sent, serial,
                   turns, svc, qmd, args>>

\* part_005:446  the handler is registered when cfg.gapDetection
ApplySessionEnd ==
    /\ args.call.fn = "session_end"
    /\ cfg.gapDetection
    /\ ~ret.done
    /\ ret' = [ret EXCEPT !.done = TRUE,
                          !.value = session_end(cfg, docs, args.call.writeFails)]
    /\ UNCHANGED <<now, cfg, file, logs, ledger, docs, ticks, nextFireAt, ae, sent, serial,
                   turns, svc, qmd, args>>

\* time passes between two runs of the analysis, within one day
HooksAdvance ==
    /\ args.call.fn = "agent_end"
    /\ now + Quantum <= args.start + MaxSteps * Quantum
    /\ (now + Quantum) \div DayMs = now \div DayMs
    /\ now' = now + Quantum
    /\ UNCHANGED <<cfg, file, logs, ledger, docs, ticks, nextFireAt, ae, sent, serial,
                   turns, svc, qmd, args, ret>>

NextHooks ==
    \/ ApplyBeforeAgentStart
    \/ ApplyAgentEndAnalysis
    \/ ApplyAgentEndIdleUpdate
    \/ ApplySessionEnd
    \/ HooksAdvance

SpecHooks == InitHooks /\ [][NextHooks]_vars

----------------------------------------------------------------------------
(* Context extraction and the check-in hint on their own: the semantic     *)
(* answer, the dated logs, the task ledger, the documents and the idle     *)
(* record are drawn by the initial condition.  A snippet of the semantic   *)
(* search is a text with its length, like a quote of a dated log.          *)

\* what the four queries may resolve to
HintQmdAnswers ==
    {QmdAnswer(FALSE, a, b, c, d) :
        a \in {<<>>, <<"task A", "task B">>}, b \in {<<>>, <<"thread A">>},
        c \in {<<>>, <<"topic A">>},
        d \in {<<>>, <<Quote("decision A", 10), Quote("decision B", 10)>>}}
    \cup {QmdAnswer(TRUE, <<>>, <<>>, <<>>, <<>>)}

\* the user's idle times the hint is composed after
HintIdleTimes == {5 * HourMs, 24 * HourMs, 30 * HourMs}

\* tasks.json as recordTaskContext left it at the user's last interaction
HintLedgers(t) ==
    {AbsentLedger,
     JsonLedger([recent |-> <<"ledger task">>, openThreads |-> <<"ledger thread">>,
                 lastInteraction |-> t]),
     JsonLedger([recent |-> <<>>, openThreads |-> <<"ledger thread">>,
                 lastInteraction |-> t]),
     JsonLedger([recent |-> <<>>, openThreads |-> <<>>, lastInteraction |-> t])}

HintDocs ==
    {[user |-> AbsentDoc, rel |-> AbsentDoc],
     [user |-> DocFile(<<Line("- ", "Name: Sam", {"name"}),
                         Line("- ", "Work: teacher", {"work"})>>),
      rel |-> DocFile(<<Line("## ", "Communication Patterns", {"communication"}),
                        Line("- ", "says so when they disagree", {"disagree"})>>)]}

HintCalls ==
    {[fn |-> "getRecentContext", c |-> [useQmd |-> u, hasConfig |-> h], q |-> q,
      idle |-> 5 * HourMs] :
        u \in BOOLEAN, h \in BOOLEAN, q \in HintQmdAnswers}
    \cup {[fn |-> "checkInHint", c |-> [useQmd |-> u, hasConfig |-> TRUE], q |-> q,
           idle |-> idle] :
             u \in BOOLEAN, q \in HintQmdAnswers, idle \in HintIdleTimes}

InitHint ==
    /\ cfg = configSchema_parse(NoOptions)
    /\ sent = <<>>
    /\ serial = DEFAULT_STATE
    /\ turns = 0
    /\ svc = RunningService
    /\ qmd = NoQuery
    /\ ticks = [i \in TickIds |-> IdleTick]
    /\ nextFireAt = T0
    /\ ae = IdleHandler
    /\ now \in {T0, T0 + 3 * HourMs, T0 + 12 * HourMs}
    /\ \E call \in HintCalls :
          /\ args = call
          /\ file = saveIdleState([lastInteractionMs |-> now - call.idle, lastCheckInMs |-> 0,
                                   relationshipStartMs |-> now - 20 * DayMs,
                                   checkInCount |-> 0])
          /\ IF call.fn = "getRecentContext"
             THEN /\ logs \in ContextLogs
                  /\ ledger \in ContextLedgers
                  /\ docs = [user |-> AbsentDoc, rel |-> AbsentDoc]
             ELSE /\ logs \in {[today |-> AbsentLog, yesterday |-> AbsentLog],
                                [today |-> LogFile(<<Quote("use sqlite", 10)>>),
                                 yesterday |-> AbsentLog]}
                  /\ ledger \in HintLedgers(now - call.idle)
                  /\ docs \in HintDocs
    /\ ret = NoResult

\* part_005:699-715  what a tick does once the gate has passed: the context
\* is extracted, the gaps detected, the time of day read, the hint composed
ApplyCheckInHint ==
    /\ args.fn = "checkInHint"
    /\ ~ret.done
    /\ LET recentContext == getRecentContext(args.c, args.q, logs, ledger)
           gaps == detectGaps(docs)
           timeOfDay == getIdleTimeOfDay(cfg.sleepStart, cfg.sleepEnd, now)
       IN  ret' = [done |-> TRUE,
                   value |-> [context |-> recentContext.context,
                              qmdQueried |-> recentContext.qmdQueried,
                              fallbackRan |-> recentContext.fallbackRan,
                              prompt |-> generateCheckInPrompt(
                                             IF timeOfDay = "night" THEN "sleep"
                                             ELSE timeOfDay,
                                             recentContext.context, gaps, now)]]
    /\ UNCHANGED <<now, cfg, file, logs, ledger, docs, ticks, nextFireAt, ae, sent, serial,
                   turns, svc, qmd, args>>

NextHint ==
    \/ ApplyGetRecentContext
    \/ ApplyCheckInHint

SpecHint == InitHint /\ [][NextHint]_vars

----------------------------------------------------------------------------
(* Two analysis passes on the dated log: agent_end is an asynchronous      *)
(* handler, so the pass of one conversation may be between its readFile    *)
(* and its writeFile when the pass of another conversation runs.           *)

\* the passes under way
PassIds == {1, 2}

\* the text of a dated log as writeSignificantMoments reads it (the heading
\* of a new file carries no entry)
LogContent(log) == IF log.kind = "text" THEN log.decisions ELSE <<>>

\* a pass that has not read the log yet
NewPass(x) == [transcript |-> x, pc |-> "idle", content |-> <<>>]

InitLog ==
    /\ cfg = configSchema_parse(NoOptions)
    /\ file = AbsentFile
    /\ sent = <<>>
    /\ serial = DEFAULT_STATE
    /\ turns = 0
    /\ svc = RunningService
    /\ qmd = NoQuery
    /\ ticks = [i \in TickIds |-> IdleTick]
    /\ nextFireAt = T0
    /\ ae = IdleHandler
    /\ now \in {T0 - HourMs, T0}
    /\ logs \in HookLogs
    /\ docs = [user |-> AbsentDoc, rel |-> AbsentDoc]
    /\ ledger = AbsentLedger
    /\ \E x \in {PlainTranscript, BriefTranscript, RichTranscript} :
       \E y \in {PlainTranscript, BriefTranscript, RichTranscript} :
          args = [fn |-> "writeSignificantMoments",
                  passes |-> [p \in PassIds |-> NewPass(IF p = 1 THEN x ELSE y)]]
    /\ ret = {}

\* part_005:412-415, 927  a pass that detected at least one moment reads
\* the dated log
LogRead(p) ==
    /\ args.fn = "writeSignificantMoments"
    /\ args.passes[p].pc = "idle"
    /\ Len(detectSignificantMoments(args.passes[p].transcript)) > 0
    /\ args' = [args EXCEPT !.passes[p].pc = "read",
                            !.passes[p].content = LogContent(logs.today)]
    /\ UNCHANGED <<now, cfg, file, logs, ledger, docs, ticks, nextFireAt, ae, sent, serial,
                   turns, svc, qmd, ret>>

\* part_005:928-932  the entries are appended to what was read and the
\* file is written
LogWrite(p) ==
    /\ args.fn = "writeSignificantMoments"
    /\ args.passes[p].pc = "read"
    /\ LET written == writeSignificantMoments(LogFile(args.passes[p].content),
                                              detectSignificantMoments(args.passes[p].transcript),
                                              now)
       IN  /\ logs' = [logs EXCEPT !.today = written]
           /\ ret' = ret \cup {written.decisions[j] :
                                 j \in Len(args.passes[p].content) + 1..Len(written.decisions)}
    /\ args' = [args EXCEPT !.passes[p].pc = "done"]
    /\ UNCHANGED <<now, cfg, file, ledger, docs, ticks, nextFireAt, ae, sent, serial, turns,
                   svc, qmd>>

\* time passes within one day
LogAdvance ==
    /\ args.fn = "writeSignificantMoments"
    /\ now + Quantum <= T0 + MaxSteps * Quantum - HourMs
    /\ (now + Quantum) \div DayMs = now \div DayMs
    /\ now' = now + Quantum
    /\ UNCHANGED <<cfg, file, logs, ledger, docs, ticks, nextFireAt, ae, sent, serial,
                   turns, svc, qmd, args, ret>>

NextLog ==
    \/ \E p \in PassIds : LogRead(p)
    \/ \E p \in PassIds : LogWrite(p)
    \/ LogAdvance

SpecLog == InitLog /\ [][NextLog]_vars

----------------------------------------------------------------------------
(* detectGaps on documents given character by character: the keywords of   *)
(* a line are computed as the code computes them, by lower-casing the text *)
(* and searching it.                                                       *)

UpperCase ==
    <<"A", "B", "C", "D", "E", "F", "G", "H", "I", "J", "K", "L", "M", "N", "O", "P", "Q", "R", "S", "T", "U", "V", "W", "X", "Y", "Z">>

LowerCase ==
    <<"a", "b", "c", "d", "e", "f", "g", "h", "i", "j", "k", "l", "m", "n", "o", "p", "q", "r", "s", "t", "u", "v", "w", "x", "y", "z">>

toLowerCase_asIs(text) == text

\* String.prototype.toLowerCase on a text of ASCII characters
toLowerCase(text) ==
    [j \in 1..Len(text) |->
        IF \E k \in 1..Len(UpperCase) : UpperCase[k] = text[j]
        THEN LowerCase[CHOOSE k \in 1..Len(UpperCase) : UpperCase[k] = text[j]]
        ELSE text[j]]

\* String.prototype.includes
includes(text, search) ==
    \E j \in 1..Len(text) - Len(search) + 1 : SubSeq(text, j, j + Len(search) - 1) = search

\* part_005:968-989  the four keywords, in the order of the tests
GapKeywords ==
    <<[word |-> "name", chars |-> <<"n", "a", "m", "e">>, doc |-> "user", gap |-> NameGap],
      [word |-> "work", chars |-> <<"w", "o", "r", "k">>, doc |-> "user", gap |-> WorkGap],
      [word |-> "communication", chars |-> <<"c", "o", "m", "m", "u", "n", "i", "c", "a", "t", "i", "o", "n">>, doc |-> "rel",
       gap |-> CommunicationGap],
      [word |-> "disagree", chars |-> <<"d", "i", "s", "a", "g", "r", "e", "e">>, doc |-> "rel", gap |-> DisagreeGap]>>

\* a line of a document with the keywords that x.toLowerCase().includes(k)
\* finds in it
TextLine(mark, text) ==
    Line(mark, text,
         {GapKeywords[k].word : k \in {h \in 1..Len(GapKeywords) :
                                          includes(toLowerCase(text), GapKeywords[h].chars)}})

NameLine == TextLine("- ", <<"N", "a", "m", "e", ":", " ", "S", "a", "m">>)

UpperNameLine == TextLine("", <<"M", "Y", " ", "N", "A", "M", "E", " ", "I", "S", " ", "S", "A", "M">>)

SurnameLine == TextLine("", <<"S", "u", "r", "n", "a", "m", "e", " ", "u", "n", "k", "n", "o", "w", "n">>)

WorkLine == TextLine("- ", <<"W", "o", "r", "k", "s", " ", "n", "i", "g", "h", "t", "s">>)

NetworkLine == TextLine("", <<"r", "u", "n", "s", " ", "a", " ", "N", "E", "T", "W", "O", "R", "K">>)

HalfLineNa == TextLine("", <<"n", "a">>)

HalfLineMe == TextLine("", <<"m", "e">>)

OtherLine == TextLine("", <<"l", "i", "k", "e", "s", " ", "t", "e", "a">>)

CommunicationLine == TextLine("## ", <<"C", "o", "m", "m", "u", "n", "i", "c", "a", "t", "i", "o", "n", " ", "P", "a", "t", "t", "e", "r", "n", "s">>)

UpperCommunicationLine == TextLine("", <<"C", "O", "M", "M", "U", "N", "I", "C", "A", "T", "I", "O", "N", ":", " ", "t", "e", "r", "s", "e">>)

DisagreeLine == TextLine("- ", <<"D", "i", "s", "a", "g", "r", "e", "e", "s", " ", "o", "p", "e", "n", "l", "y">>)

DisagreementLine == TextLine("", <<"n", "o", " ", "D", "I", "S", "A", "G", "R", "E", "E", "M", "E", "N", "T", " ", "y", "e", "t">>)

SpacedLine == TextLine("", <<"d", "i", "s", " ", "a", "g", "r", "e", "e", ",", " ", "c", "o", "m", "m", "u", "n", "i", " ", "c", "a", "t", "i", "o", "n">>)

\* USER.md and RELATIONAL.md as detectGaps may find them
GapUserDocs ==
    {AbsentDoc, DocFile(<<>>), DocFile(<<NameLine>>), DocFile(<<UpperNameLine, OtherLine>>),
     DocFile(<<SurnameLine>>), DocFile(<<OtherLine, WorkLine>>), DocFile(<<NetworkLine>>),
     DocFile(<<NameLine, WorkLine>>), DocFile(<<HalfLineNa, HalfLineMe>>),
     DocFile(<<OtherLine>>)}

GapRelDocs ==
    {AbsentDoc, DocFile(<<>>), DocFile(<<CommunicationLine>>),
     DocFile(<<UpperCommunicationLine>>), DocFile(<<DisagreeLine>>),
     DocFile(<<DisagreementLine, CommunicationLine>>), DocFile(<<SpacedLine>>),
     DocFile(<<CommunicationLine, DisagreeLine>>)}

InitGaps ==
    /\ cfg = configSchema_parse(NoOptions)
    /\ file = AbsentFile
    /\ sent = <<>>
    /\ serial = DEFAULT_STATE
    /\ turns = 0
    /\ svc = RunningService
    /\ qmd = NoQuery
    /\ ticks = [i \in TickIds |-> IdleTick]
    /\ nextFireAt = T0
    /\ ae = IdleHandler
    /\ now = T0
    /\ logs = [today |-> AbsentLog, yesterday |-> AbsentLog]
    /\ ledger = AbsentLedger
    /\ docs \in {[user |-> u, rel |-> r] : u \in GapUserDocs, r \in GapRelDocs}
    /\ args = [fn |-> "detectGaps"]
    /\ ret = NoResult

\* part_005:963-999
ApplyDetectGaps ==
    /\ args.fn = "detectGaps"
    /\ ~ret.done
    /\ ret' = [done |-> TRUE, value |-> detectGaps(docs)]
    /\ UNCHANGED <<now, cfg, file, logs, ledger, docs, ticks, nextFireAt, ae, sent, serial,
                   turns, svc, qmd, args>>

NextGaps == ApplyDetectGaps

SpecGaps == InitGaps /\ [][NextGaps]_vars

----------------------------------------------------------------------------
(* The memory folder with logs of earlier days: besides today's and        *)
(* yesterday's log it holds, under `older`, the logs of two and of three   *)
(* days ago.                                                               *)

\* a dated log with one decision entry
DayLog(text) == LogFile(<<Quote(text, 12)>>)

FolderLogs ==
    {[today |-> a, yesterday |-> b, older |-> <<c, d>>] :
        a \in {AbsentLog, DayLog("today's note")},
        b \in {AbsentLog, DayLog("yesterday's")},
        c \in {AbsentLog, DayLog("two days ago")},
        d \in {AbsentLog, DayLog("three days..")}}

InitFolder ==
    /\ SchedulerAtRest
    /\ now = T0
    /\ logs \in FolderLogs
    /\ ledger \in ContextLedgers
    /\ args \in {[fn |-> "getRecentContext", c |-> [useQmd |-> u, hasConfig |-> TRUE],
                  q |-> q] :
                    u \in BOOLEAN,
                    q \in {QmdAnswer(FALSE, <<"task A">>, <<>>, <<>>, <<>>),
                           QmdAnswer(TRUE, <<>>, <<>>, <<>>, <<>>)}}
    /\ ret = NoResult

NextFolder == ApplyGetRecentContext

SpecFolder == InitFolder /\ [][NextFolder]_vars

----------------------------------------------------------------------------
(* The scheduler while the user stays idle: no turn completes.  The steps  *)
(* of a tick callback that has started are continuations of awaited file   *)
(* reads, of the call of the delivery and of the save; the event loop runs *)
(* each of them once its promise has settled.                              *)

NextIdle ==
    \/ Advance
    \/ \E i \in TickIds : TickFire(i)
    \/ \E i \in TickIds : TickContext(i)
    \/ \E i \in TickIds : TickTrigger(i)
    \/ \E i \in TickIds : TickSave(i)
    \/ \E i \in TickIds : TickReturn(i)

SpecIdle ==
    /\ Init
    /\ [][NextIdle]_vars
    /\ \A i \in TickIds :
          WF_vars(TickContext(i)) /\ WF_vars(TickTrigger(i)) /\ WF_vars(TickSave(i))

----------------------------------------------------------------------------
(* The service started more than once: the host calls start() again on a   *)
(* service whose earlier start() has returned (a reload), then stop().     *)

\* how many timers start() may have created at one time
MaxStarts == 2

\* part_005:606-729  start() is called again, QMD initialisation off: the
\* call runs to its end at once
ServiceStartAgain ==
    /\ svc.start = "done"
    /\ ~cfg.useQmd
    /\ Cardinality(svc.timers) < MaxStarts
    /\ svc' = [SetUpInterval(svc) EXCEPT !.stopped = FALSE]
    /\ nextFireAt' = IF cfg.proactiveCheckIns THEN now + cfg.checkIntervalMs ELSE nextFireAt
    /\ UNCHANGED <<now, cfg, file, logs, ledger, docs, ticks, ae, sent, serial, turns,
                   qmd, args, ret>>

InitRestart ==
    /\ now = T0
    /\ cfg = configSchema_parse([f \in {"useQmd"} |-> FALSE])
    /\ file = saveIdleState(IdleRecord(5 * HourMs, 0, 0, 20 * DayMs))
    /\ logs = [today |-> AbsentLog, yesterday |-> AbsentLog]
    /\ ledger = JsonLedger([recent |-> <<"ledger task">>])
    /\ docs = [user |-> DocFile(<<Line("- ", "Name: Sam", {"name"})>>), rel |-> AbsentDoc]
    /\ ticks = [i \in TickIds |-> IdleTick]
    /\ nextFireAt = T0
    /\ ae = IdleHandler
    /\ sent = <<>>
    /\ serial = loadIdleState(file, T0)
    /\ turns = 0
    /\ svc = NewService
    /\ qmd = NoQuery
    /\ args = NoCall
    /\ ret = NoResult

NextRestart ==
    \/ Advance
    \/ ServiceStart
    \/ ServiceStartAgain
    \/ ServiceStop
    \/ \E i \in TickIds : TickFire(i)
    \/ \E i \in TickIds : TickContext(i)
    \/ \E i \in TickIds : TickTrigger(i)
    \/ \E i \in TickIds : TickSave(i)
    \/ \E i \in TickIds : TickReturn(i)

SpecRestart == InitRestart /\ [][NextRestart]_vars

----------------------------------------------------------------------------
(* The two sleep-window tests side by side: the one of the plugin file,    *)
(* which the injection hook calls, and the one of idle-service.ts, which   *)
(* the gate calls, on the same bounds at the same time of day.             *)

InitAgree ==
    /\ SchedulerAtRest
    /\ NoFiles
    /\ now \in {Midnight + m : m \in 0..(DayMs - 1)}
    /\ args \in {[fn |-> "sleepDecisions", sleepStart |-> a, sleepEnd |-> b] :
                    a \in SleepBounds, b \in SleepBounds}
    /\ ret = NoResult

\* part_005:366 and idle-service.ts:116
ApplySleepDecisions ==
    /\ args.fn = "sleepDecisions"
    /\ ~ret.done
    /\ ret' = [done |-> TRUE,
               value |-> [hook |-> index_isInSleepHours(args.sleepStart, args.sleepEnd, now),
                          gate |-> isInSleepHours(args.sleepStart, args.sleepEnd, now)]]
    /\ UNCHANGED <<now, cfg, file, logs, ledger, docs, ticks, nextFireAt, ae, sent, serial,
                   turns, svc, qmd, args>>

NextAgree == ApplySleepDecisions

SpecAgree == InitAgree /\ [][NextAgree]_vars

----------------------------------------------------------------------------
(* Claims *)

\* the sleep window of the specification over minutes since midnight:
\* [start, end) when start <= end, [start, 1440) and [0, end) otherwise
SleepWindow(start, end, m) ==
    IF start <= end THEN start <= m /\ m < end ELSE m >= start \/ m < end

\* the minimum gap a call of the gate is held to
EffectiveMinGap(call) ==
    IF call.minGap.kind = "undefined" THEN DefaultMinTimeBetweenCheckInsMs
    ELSE call.minGap.value

\* C1: any two check-ins handed to the delivery collaborator are at least
\* the minimum gap (one hour) apart, whatever the interleaving of ticks and
\* turn completions.
C1_SendsAtLeastMinGapApart ==
    \A j \in 1..Len(sent) : \A k \in 1..Len(sent) :
        j < k => sent[k].at - sent[j].at >= DefaultMinTimeBetweenCheckInsMs

\* no tick callback and no agent_end update is under way
Quiescent ==
    /\ ae.pc = "idle"
    /\ \A i \in TickIds : ticks[i].pc \in {"idle", "done"}

\* C2: the writes of the tick and of the agent_end update are serialized:
\* once one dispatching tick and one agent_end update have both finished,
\* in whatever interleaving, the persisted record holds the turn's
\* lastInteractionMs and the tick's lastCheckInMs and checkInCount, as a
\* serial run of the two updates leaves them.
C2_NoLostUpdate ==
    (Quiescent /\ turns = 1 /\ Len(sent) = 1 /\ serial.checkInCount = 1) =>
        loadIdleState(file, now) = serial

\* C3: within one tick the steps come in the order gate, context
\* extraction, hand-off to delivery, persistence, and no step happens twice
\* (so a tick hands over at most one check-in).
C3_TickStepsInOrder ==
    \A i \in TickIds :
        \A a \in 1..Len(ticks[i].log) : \A b \in 1..Len(ticks[i].log) :
            a < b => StepRank(ticks[i].log[a]) < StepRank(ticks[i].log[b])

\* C3 witness: a tick that went through all four steps
C3_Witness ==
    \E i \in TickIds : ticks[i].log = <<"gate", "context", "dispatch", "persist">>

\* C8: a tick is in learning mode iff the relationship is strictly less than
\* 14 days old when its gate runs, and it uses the learning threshold iff it
\* is in learning mode, the mature threshold otherwise (20 days: mature,
\* 1 day: learning).
C8_ModeSelectsThreshold ==
    [][\A i \in TickIds :
          (ticks[i].pc = "idle" /\ ticks'[i].pc # "idle") =>
              LET age == now - ticks'[i].state.relationshipStartMs
              IN  /\ ticks'[i].inLearning = (age < 14 * DayMs)
                  /\ ticks'[i].threshold =
                        IF age < 14 * DayMs THEN cfg.learningIdleThresholdMs
                        ELSE cfg.matureIdleThresholdMs
                  /\ (age = 20 * DayMs =>
                        ticks'[i].threshold = DefaultMatureIdleThresholdMs)
                  /\ (age = DayMs =>
                        ticks'[i].threshold = DefaultLearningIdleThresholdMs)]_vars

\* C8 witness: a tick whose gate ran when the relationship was exactly 14
\* days old, in mature mode with the mature threshold
C8_Witness ==
    \E i \in TickIds :
        /\ ticks[i].pc = "done"
        /\ ticks[i].log = <<"gate">>
        /\ now - ticks[i].state.relationshipStartMs = 14 * DayMs
        /\ ~ticks[i].inLearning
        /\ ticks[i].threshold = cfg.matureIdleThresholdMs

\* C4: the gate answers false whenever the time is inside the sleep window,
\* whatever the idle time, the last check-in and the threshold.
C4_NoCheckInDuringSleep ==
    (ret.done /\ args.fn = "shouldSendCheckIn") =>
        (SleepWindow(parseTimeToMinutes(args.sleepStart),
                     parseTimeToMinutes(args.sleepEnd), now % DayMs)
            => ret.value = FALSE)

\* C4 witness: inside the window, idle beyond the threshold, never checked in
C4_Witness ==
    /\ ret.done /\ args.fn = "shouldSendCheckIn"
    /\ args.sleepStart = StrTime(<<22, 0>>)
    /\ now % DayMs = 23 * 60 + 30
    /\ now - args.state.lastInteractionMs >= args.idleThresholdMs
    /\ args.state.lastCheckInMs = 0
    /\ ret.value = FALSE

\* C5: the gate answers false whenever less than the minimum gap has passed
\* since the last check-in, even with the idle threshold reached.
C5_NoCheckInWithinMinGap ==
    (ret.done /\ args.fn = "shouldSendCheckIn") =>
        (now - args.state.lastCheckInMs < EffectiveMinGap(args) => ret.value = FALSE)

\* C5 witness: awake, idle beyond the threshold, 59 minutes after a check-in
C5_Witness ==
    /\ ret.done /\ args.fn = "shouldSendCheckIn"
    /\ ~SleepWindow(parseTimeToMinutes(args.sleepStart),
                    parseTimeToMinutes(args.sleepEnd), now % DayMs)
    /\ now - args.state.lastInteractionMs >= args.idleThresholdMs
    /\ args.minGap = Undefined
    /\ now - args.state.lastCheckInMs = 59
    /\ ret.value = FALSE

\* C6: outside the sleep window and with the minimum gap satisfied, the gate
\* answers exactly (now - lastInteractionMs) >= threshold; with the 4 h
\* threshold, 3 h idle gives false and 5 h idle gives true.
C6_GateIsIdleAtLeastThreshold ==
    (/\ ret.done /\ args.fn = "shouldSendCheckIn"
     /\ ~SleepWindow(parseTimeToMinutes(args.sleepStart),
                     parseTimeToMinutes(args.sleepEnd), now % DayMs)
     /\ now - args.state.lastCheckInMs >= EffectiveMinGap(args)) =>
        /\ ret.value = (now - args.state.lastInteractionMs >= args.idleThresholdMs)
        /\ (args.idleThresholdMs = 4 * HourMs
              /\ now - args.state.lastInteractionMs = 3 * HourMs => ret.value = FALSE)
        /\ (args.idleThresholdMs = 4 * HourMs
              /\ now - args.state.lastInteractionMs = 5 * HourMs => ret.value = TRUE)

\* C6 witness: idle exactly the 4 h threshold, awake, gap satisfied: true
C6_Witness ==
    /\ ret.done /\ args.fn = "shouldSendCheckIn"
    /\ ~SleepWindow(parseTimeToMinutes(args.sleepStart),
                    parseTimeToMinutes(args.sleepEnd), now % DayMs)
    /\ now - args.state.lastCheckInMs = EffectiveMinGap(args)
    /\ args.idleThresholdMs = 4 * HourMs
    /\ now - args.state.lastInteractionMs = 4 * HourMs
    /\ ret.value = TRUE

\* C7: with the bounds normalised to minutes since midnight, isInSleepHours
\* is true iff start <= t < end when start <= end, and iff t >= start or
\* t < end when start > end; with 22:00-07:00, 23:30 and 06:59 are sleep and
\* 07:00 is not.
C7_SleepWindowHalfOpen ==
    (ret.done /\ args.fn = "isInSleepHours") =>
        LET start == parseTimeToMinutes(args.sleepStart)
            end == parseTimeToMinutes(args.sleepEnd)
            t == now % DayMs
        IN  /\ start <= end => (ret.value <=> (start <= t /\ t < end))
            /\ start > end => (ret.value <=> (t >= start \/ t < end))
            /\ (start = 22 * 60 /\ end = 7 * 60) =>
                  /\ t = 23 * 60 + 30 => ret.value
                  /\ t = 6 * 60 + 59 => ret.value
                  /\ t = 7 * 60 => ~ret.value

\* C7 witness: 22:00-07:00 at 06:59 is sleep
C7_Witness ==
    /\ ret.done /\ args.fn = "isInSleepHours"
    /\ args.sleepStart = StrTime(<<22, 0>>)
    /\ args.sleepEnd = StrTime(<<7, 0>>)
    /\ now % DayMs = 6 * 60 + 59
    /\ ret.value = TRUE

\* the semantic search was consulted and answered
SearchAnswered == args.c.useQmd /\ args.c.hasConfig /\ ~args.q.thrown

AllIntentsEmpty ==
    /\ args.q.taskSnippets = <<>>
    /\ args.q.threadSnippets = <<>>
    /\ args.q.topicSnippets = <<>>
    /\ args.q.decisionSnippets = <<>>

\* C9: if the semantic search returns a snippet for any of the four intents,
\* the extraction returns the primary result and does not run the file-based
\* fallback reader.
C9_AnySnippetSkipsFallback ==
    (ret.done /\ args.fn = "getRecentContext" /\ SearchAnswered /\ ~AllIntentsEmpty) =>
        /\ ~ret.value.fallbackRan
        /\ ret.value.context.lastTasks = args.q.taskSnippets
        /\ ret.value.context.openThreads = args.q.threadSnippets
        /\ ret.value.context.recentDecisions = args.q.decisionSnippets

\* C10: if the semantic search returns nothing for all four intents, or
\* fails, the extraction runs the fallback reader and returns exactly what
\* it reads from the dated logs and the task ledger: nothing at all when the
\* files are absent or unreadable.
C10_EmptySearchRunsFallback ==
    (ret.done /\ args.fn = "getRecentContext" /\ (args.q.thrown \/ AllIntentsEmpty)) =>
        /\ ret.value.fallbackRan
        /\ ret.value.context = ReadFallback(EmptyRecentContext, logs, ledger)
        /\ (/\ logs.today.kind = "absent" /\ logs.yesterday.kind = "absent"
            /\ ledger.kind \in {"absent", "invalid"})
              => ret.value.context = EmptyRecentContext
        /\ (ledger.kind = "json" /\ "recent" \in DOMAIN ledger.data)
              => ret.value.context.lastTasks = ledger.data["recent"]

\* C10 witness: the search was consulted, all four intents came back empty,
\* and the tasks of the ledger are in the result
C10_Witness ==
    /\ ret.done /\ args.fn = "getRecentContext"
    /\ SearchAnswered /\ AllIntentsEmpty
    /\ ret.value.fallbackRan
    /\ ret.value.context.lastTasks = <<"ledger task">>
    /\ Len(ret.value.context.recentDecisions) = 3

\* C11: saveIdleState followed by loadIdleState on the same store, with no
\* write in between, returns a record equal in all four fields to the one
\* saved.
C11_SaveLoadRoundTrip ==
    (args.fn = "saveIdleState" /\ ret.step = "loaded") =>
        /\ ret.value = <<args.state>>
        /\ \A f \in IdleFields : ret.value[1][f] = args.state[f]

\* C11 witness: a record with zero fields, saved over an unreadable text
\* and loaded an hour after the module was loaded
C11_Witness ==
    /\ args.fn = "saveIdleState" /\ ret.step = "loaded"
    /\ args.before.kind = "partial"
    /\ args.state.lastInteractionMs = 0
    /\ args.state.checkInCount = 12
    /\ now = T0 + Quantum
    /\ ret.value[1].lastInteractionMs = 0

\* C12: a crash or failure at any point during saveIdleState never leaves
\* the file truncated or unreadable: after an interrupted save the file
\* holds the complete previous record or the complete new record.
C12_InterruptedSaveLeavesOldOrNew ==
    (args.fn = "saveIdleState" /\ ret.step \in {"threw", "crashed"}) =>
        file \in {args.before, saveIdleState(args.state)}

\* C17: loadIdleState never throws: for a file that is missing, unreadable
\* or not valid JSON it returns the default record, and the load leaves the
\* store as it was.
C17_LoadNeverThrows ==
    (args.fn = "loadIdleState" /\ ret.step = "loaded") =>
        /\ ret.value # <<Thrown>>
        /\ file = args.before
        /\ file.kind \in {"absent", "unreadable", "partial"} => ret.value = <<DEFAULT_STATE>>

\* C17 witness: the load of a text cut short answered with the defaults
C17_Witness ==
    /\ args.fn = "loadIdleState" /\ ret.step = "loaded"
    /\ file = PartialFile(WrittenMembers(IdleRecord(HourMs, 0, 3, DayMs), 2))
    /\ ret.value = <<DEFAULT_STATE>>

\* C15: when the gate returns false in a tick, the tick extracts no context,
\* hands nothing to delivery and writes nothing to the idle-state store: it
\* only returns, and the persisted record is unchanged.
C15_SuppressedTickTouchesNothing ==
    [][\A i \in TickIds :
          /\ (/\ ticks[i].pc = "idle" /\ ticks'[i].pc # "idle"
              /\ ~shouldSendCheckIn(ticks'[i].state, ticks'[i].threshold, cfg.sleepStart,
                                    cfg.sleepEnd, Undefined, now))
                => (ticks'[i].pc = "done" /\ ticks'[i].context = EmptyRecentContext
                    /\ file' = file /\ sent' = sent)
          /\ (ticks[i].pc = "done" /\ ticks[i].log = <<"gate">> /\ ticks'[i] # ticks[i])
                => (ticks'[i] = IdleTick /\ file' = file /\ sent' = sent)]_vars

\* C15 witness: a tick suppressed by the gate (idle for less than the
\* threshold) with the store still holding the record it loaded
C15_Witness ==
    \E i \in TickIds :
        /\ ticks[i].pc = "done"
        /\ ticks[i].log = <<"gate">>
        /\ getIdleMs(ticks[i].state, now) < ticks[i].threshold
        /\ file = saveIdleState(ticks[i].state)
        /\ sent = <<>>

\* C16: no check-in is handed to the delivery collaborator at a time inside
\* the configured sleep window, also when the gate of the tick ran outside
\* the window and its context extraction ended inside it.
C16_NoHandOffInSleepWindow ==
    \A k \in 1..Len(sent) :
        ~SleepWindow(parseTimeToMinutes(cfg.sleepStart), parseTimeToMinutes(cfg.sleepEnd),
                     sent[k].at % DayMs)

\* C13: if a step of a scheduler tick throws, the exception is caught inside
\* the tick, the persisted idle state is what it was before the tick, and
\* the timer keeps firing later ticks.
C13_ThrowingTickLeavesStore ==
    [][\A i \in TickIds :
          (ticks[i].pc # "caught" /\ ticks'[i].pc = "caught") =>
              (file' = file /\ svc'.timers = svc.timers /\ svc.timers # {}
               /\ nextFireAt' \in {nextFireAt, now + cfg.checkIntervalMs})]_vars

\* C14: after stop() has been called no new scheduler tick ever starts,
\* whatever the interleaving of start() and stop(); a tick in flight may run
\* to its end.
C14_NoTickStartsAfterStop ==
    [][svc.stopped =>
          \A i \in TickIds : ~(ticks[i].pc = "idle" /\ ticks'[i].pc # "idle")]_vars

\* the query failed: the timer fired, the child could not be spawned, it
\* exited with a code other than 0, or its output does not parse
QueryFailed ==
    \/ qmd.killed
    \/ qmd.pc = "errored"
    \/ qmd.pc = "closed" /\ qmd.stdout.kind # "list"

C19_NoHandlerLetsExceptionEscape ==
    (ret.done /\ args.call.fn \in {"before_agent_start", "agent_end",
                                   "agent_end_idle_update", "session_end"})
        => ~ret.value.escaped

\* the analysis ran to its end on a transcript it analyses
Analysed ==
    /\ args.call.fn = "agent_end"
    /\ args.call.fails = "none"
    /\ args.call.event.success
    /\ args.call.event.hasMessages
    /\ args.call.event.transcript.chars >= 50
    /\ turns >= 1

\* the entries of the dated log that quote passage q
LogCopies(log, q) ==
    IF log.kind = "text"
    THEN Cardinality({j \in 1..Len(log.decisions) :
                         log.decisions[j].text = q.text /\ log.decisions[j].len = q.len})
    ELSE 0

\* the "- " lines of a document that carry passage q
DocCopies(doc, q) ==
    IF doc.kind = "text"
    THEN Cardinality({j \in 1..Len(doc.lines) :
                         doc.lines[j].mark = "- " /\ doc.lines[j].text = q.text})
    ELSE 0

\* the lists of the task ledger
LedgerLists(ld) == [recent |-> ld.data["recent"], openThreads |-> ld.data["openThreads"]]

\* C20: after n runs of the analysis on one transcript the dated log holds
\* n more entries for every detected moment, RELATIONAL.md n more lines for
\* every relational entry and USER.md n more lines for every identity
\* entry than before (two runs: two copies, nothing is deduplicated), and
\* the task ledger has the recent and openThreads lists it had after the
\* first run.
C20_TwoRunsAppendTwoCopies ==
    Analysed =>
        LET text == args.call.event.transcript
            moments == detectSignificantMoments(text)
            relational == detectRelationalPatterns(text)
            identity == detectIdentityPatterns(text)
            times(xs, q) == Cardinality({j \in 1..Len(xs) : xs[j] = q})
            quotes == MapSeq(moments, LAMBDA m : m.quote)
            values == MapSeq(identity, LAMBDA u : u.value)
        IN  /\ \A j \in 1..Len(quotes) :
                  LogCopies(logs.today, quotes[j])
                      = LogCopies(args.before.logs.today, quotes[j])
                        + turns * times(quotes, quotes[j])
            /\ \A j \in 1..Len(relational) :
                  DocCopies(docs.rel, relational[j])
                      = DocCopies(args.before.docs.rel, relational[j])
                        + turns * times(relational, relational[j])
            /\ \A j \in 1..Len(values) :
                  DocCopies(docs.user, values[j])
                      = DocCopies(args.before.docs.user, values[j])
                        + turns * times(values, values[j])
            /\ IF Len(extractTasks(text)) > 0 \/ Len(extractThreads(text)) > 0
               THEN /\ LedgerLists(ledger) = LedgerLists(ret.first[1])
                    /\ ledger.data["recent"] = extractTasks(text)
                    /\ ledger.data["openThreads"] = extractThreads(text)
               ELSE ledger = args.before.ledger

\* two runs on a transcript with two moments, two relational entries,
\* three identity entries and a task, over files that already had content
C20_Witness ==
    /\ Analysed
    /\ turns = 2
    /\ args.call.event.transcript = RichTranscript
    /\ args.before.logs.today.kind = "text"
    /\ args.before.docs.rel.kind = "text"
    /\ LogCopies(logs.today, Passage("we decided to use sqlite", 170, {})) = 3
    /\ DocCopies(docs.rel, Passage("i prefer short answers", 150, {})) \in {2, 3}
    /\ DocCopies(docs.user, Passage("my name is Sam", 150, {"name"})) = 2

\* C21: lastCheckInMs and checkInCount change only in a tick whose check-in
\* the delivery collaborator accepted: a tick whose enqueue fails leaves
\* the record it loaded as it is and goes on to return without a save.
C21_FailedEnqueueStampsNothing ==
    [][\A i \in TickIds :
          (ticks[i].pc = "trigger" /\ ticks'[i].pc # "trigger" /\ sent' = sent)
              => (ticks'[i].state = ticks[i].state /\ ticks'[i].pc \in {"done", "caught"})]_vars

\* the checkInCount a load of the store returns
PersistedCount(f) == loadIdleState(f, now).checkInCount

\* C22: the persisted checkInCount never decreases, whatever the
\* interleaving of ticks and turn completions, and the write of a tick that
\* dispatched raises it by exactly one.
C22_CountNeverDecreases ==
    [][/\ PersistedCount(file') >= PersistedCount(file)
       /\ \A i \in TickIds :
             (ticks[i].pc = "save" /\ ticks'[i].pc = "done")
                 => PersistedCount(file') = PersistedCount(file) + 1]_vars

\* C23: once a relationshipStartMs has been persisted, every later load
\* returns it, whatever ticks, failed loads and interrupted saves came in
\* between.
C23_RelationshipStartIsKept ==
    loadIdleState(file, now).relationshipStartMs = serial.relationshipStartMs

\* C24: every record that loadIdleState returns has lastCheckInMs <= now
\* and relationshipStartMs <= lastInteractionMs, also when members missing
\* from the file were filled with their defaults.
C24_LoadedRecordIsOrdered ==
    (args.fn = "loadIdleState" /\ ret.step = "loaded")
        => /\ ret.value[1].lastCheckInMs <= now
           /\ ret.value[1].relationshipStartMs <= ret.value[1].lastInteractionMs

\* C25: with no record in the store, a load returns the time of that load
\* in lastInteractionMs, lastCheckInMs and relationshipStartMs, and a
\* checkInCount of 0, however long the process has been running.
C25_FirstLoadStampsNow ==
    (args.fn = "loadIdleState" /\ ret.step = "loaded" /\ args.before = AbsentFile)
        => ret.value[1] = [lastInteractionMs |-> now, lastCheckInMs |-> now,
                           relationshipStartMs |-> now, checkInCount |-> 0]

\* C26: a state with lastCheckInMs = 0 (never checked in) is never held
\* back by the minimum gap: outside the sleep window shouldSendCheckIn is
\* then exactly (now - lastInteractionMs) >= threshold.
C26_NeverCheckedInPassesGap ==
    (ret.done /\ args.fn = "shouldSendCheckIn" /\ args.state.lastCheckInMs = 0
        /\ ~isInSleepHours(args.sleepStart, args.sleepEnd, now))
        => (ret.value <=> (now - args.state.lastInteractionMs >= args.idleThresholdMs))

\* never checked in, awake, idle for the threshold exactly, under the
\* longest minimum gap: the gate says yes
C26_Witness ==
    /\ ret.done
    /\ args.fn = "shouldSendCheckIn"
    /\ args.state.lastCheckInMs = 0
    /\ args.minGap = Given(2 * HourMs)
    /\ ~isInSleepHours(args.sleepStart, args.sleepEnd, now)
    /\ now - args.state.lastInteractionMs = args.idleThresholdMs
    /\ ret.value

\* the elements of a sequence
Elements(xs) == {xs[j] : j \in 1..Len(xs)}

\* something in context v was obtained from the semantic backend
FromSemantic(v, q) ==
    \/ Elements(v.lastTasks) \cap Elements(q.taskSnippets) # {}
    \/ Elements(v.openThreads) \cap Elements(q.threadSnippets) # {}
    \/ {d.text : d \in Elements(v.recentDecisions)}
           \cap {d.text : d \in Elements(q.decisionSnippets)} # {}

\* something in context v was read by the file-based fallback
FromFiles(v, lg, ld) ==
    LET logged(log) == IF log.kind = "text" THEN {d.text : d \in Elements(log.decisions)}
                       ELSE {}
        listed(f) == IF ld.kind = "json" /\ f \in DOMAIN ld.data THEN Elements(ld.data[f])
                     ELSE {}
    IN  \/ Elements(v.lastTasks) \cap listed("recent") # {}
        \/ Elements(v.openThreads) \cap listed("openThreads") # {}
        \/ {d.text : d \in Elements(v.recentDecisions)}
               \cap (logged(lg.today) \cup logged(lg.yesterday)) # {}
        \/ (v.lastInteraction # NullValue)

\* C27: the context one extraction call returns comes from one tier: it
\* never holds snippets of the semantic backend together with entries read
\* by the file-based fallback.
C27_OneTierPerCall ==
    (ret.done /\ args.fn \in {"getRecentContext", "checkInHint"})
        => ~(FromSemantic(ret.value.context, args.q)
             /\ FromFiles(ret.value.context, logs, ledger))

\* the semantic backend answered with tasks and decisions while the dated
\* log and the ledger had entries too: only the backend's are returned
C27_Witness ==
    /\ ret.done
    /\ args.fn = "getRecentContext"
    /\ FromSemantic(ret.value.context, args.q)
    /\ Len(ret.value.context.recentDecisions) = 2
    /\ logs.today.kind = "text" /\ Len(logs.today.decisions) > 0
    /\ ledger.kind = "json"

\* the focus the stated priority gives, for a user idle for idleMs
FocusByPriority(idleMs, context, gaps) ==
    IF idleMs > 24 * HourMs /\ Len(context.openThreads) > 0
    THEN [kind |-> "thread", about |-> <<context.openThreads[1]>>]
    ELSE IF Len(context.lastTasks) > 0
    THEN [kind |-> "task", about |-> <<context.lastTasks[1]>>]
    ELSE IF Len(gaps) > 0
    THEN [kind |-> "gap", about |-> <<gaps[1].suggestedQuestion>>]
    ELSE [kind |-> "open-ended", about |-> <<>>]

\* C28: the focus of a check-in hint is the first open thread when the
\* user has been idle for more than 24 hours and a thread is open, else
\* the first recent task, else the first gap's question, else open-ended,
\* whichever tier supplied the context.
C28_FocusByStrictPriority ==
    (ret.done /\ args.fn = "checkInHint" /\ ret.value.prompt # NullValue)
        => ret.value.prompt[1].focus
               = FocusByPriority(now - loadIdleState(file, now).lastInteractionMs,
                                 ret.value.context, detectGaps(docs))

\* a sleep bound that is an hour of the day or an HH:MM time
ValidSleepBound(time) ==
    \/ time.kind = "number" /\ time.hours \in 0..23
    \/ /\ time.kind = "string"
       /\ Len(time.parts) \in {1, 2}
       /\ time.parts[1] \in 0..23
       /\ Len(time.parts) = 2 => time.parts[2] \in 0..59

\* the relationship excerpt: the "- " and "### " lines of RELATIONAL.md,
\* ten at most, and nothing when there is no such line
Excerpt(rel) ==
    LET marked == IF rel.kind = "text"
                  THEN SelectSeq(rel.lines, LAMBDA l : l.mark \in {"- ", "### "})
                  ELSE <<>>
    IN  IF marked = <<>> THEN <<>>
        ELSE <<[kind |-> "relationship-context",
                lines |-> IF Len(marked) <= 10 THEN marked ELSE SubSeq(marked, 1, 10)]>>

\* C29: with valid sleep bounds and a well-formed ledger, the injection
\* hook contributes the relationship excerpt alone inside the sleep window
\* (nothing when there is no excerpt) and never a check-in hint there;
\* outside the window with check-ins enabled it contributes the excerpt,
\* if any, and a check-in hint.
C29_HookContributions ==
    (/\ ret.done
     /\ args.call.fn = "before_agent_start"
     /\ args.call.event.longPrompt
     /\ ValidSleepBound(cfg.sleepStart) /\ ValidSleepBound(cfg.sleepEnd)
     /\ ledger # MalformedLedger)
        => LET result == ret.value.result
               excerpt == Excerpt(docs.rel)
               asleep == isInSleepHours(cfg.sleepStart, cfg.sleepEnd, now)
           IN  IF asleep \/ ~cfg.checkIns
               THEN result = excerpt
               ELSE /\ Len(result) = Len(excerpt) + 1
                    /\ SubSeq(result, 1, Len(excerpt)) = excerpt
                    /\ "focus" \in DOMAIN result[Len(result)]

\* C30: a sleepStart or sleepEnd that is not an hour of the day or an
\* HH:MM time is rejected at startup: no tick ever runs the gate with such
\* a bound in the configuration.
C30_NoGateWithInvalidSleepBound ==
    (\E i \in TickIds : Len(ticks[i].log) > 0 /\ ticks[i].log[1] = "gate")
        => (ValidSleepBound(cfg.sleepStart) /\ ValidSleepBound(cfg.sleepEnd))

\* C31: after an analysis pass the task ledger is exactly {recent: the
\* tasks of this pass, openThreads: the threads of this pass,
\* lastInteraction: the time of this pass}; nothing of the previous ledger
\* is left, also when the pass found no task and no thread.
C31_LedgerFullyOverwritten ==
    Analysed =>
        \E t \in args.start..now :
            ledger = JsonLedger([recent |-> extractTasks(args.call.event.transcript),
                                 openThreads |-> extractThreads(args.call.event.transcript),
                                 lastInteraction |-> t])

\* C32: when the write of one target of a pass fails (dated log,
\* RELATIONAL.md, USER.md or task ledger), that target keeps its previous
\* content and every other target holds what the pass would have written
\* to it.
C32_OnlyFailedUpdateDropped ==
    (/\ args.call.fn = "agent_end"
     /\ args.call.fails # "none"
     /\ args.call.event.success
     /\ args.call.event.hasMessages
     /\ args.call.event.transcript.chars >= 50
     /\ turns = 1)
        => \E t \in args.start..now :
              LET whole == agent_end_analysis(args.call.event, "none", args.before.logs,
                                              args.before.docs, args.before.ledger, t)
                  failed == args.call.fails
              IN  /\ logs = IF failed = "log" THEN args.before.logs ELSE whole.logs
                  /\ docs.rel = IF failed = "relational" THEN args.before.docs.rel
                                ELSE whole.docs.rel
                  /\ docs.user = IF failed = "user" THEN args.before.docs.user
                                 ELSE whole.docs.user
                  /\ ledger = IF failed = "ledger" THEN args.before.ledger
                              ELSE whole.ledger

\* C33: the dated log is append-only: at every step, also of two passes
\* whose read and write interleave, the new content of the day's log
\* extends the previous content and every entry ever written is present.
C33_LogIsAppendOnly ==
    [][LET before == LogContent(logs.today)
           after == LogContent(logs'.today)
       IN  /\ Len(before) <= Len(after)
           /\ SubSeq(after, 1, Len(before)) = before
           /\ \A e \in ret' : Count(after, e) > 0]_vars

\* the text of a document as one sequence of characters, a line break
\* after every line; nothing for a document that does not exist
RECURSIVE DocText(_)
DocText(lines) ==
    IF lines = <<>> THEN <<>>
    ELSE DocText(SubSeq(lines, 1, Len(lines) - 1))
         \o lines[Len(lines)].text \o <<"\n">>

\* the two cases of a letter
BothCases(c) ==
    {c} \cup {UpperCase[k] : k \in {h \in 1..Len(LowerCase) : LowerCase[h] = c}}

\* the keyword occurs in the text, whatever the case of each letter
OccursIgnoringCase(chars, text) ==
    \E j \in 1..Len(text) - Len(chars) + 1 :
        \A k \in 1..Len(chars) : text[j + k - 1] \in BothCases(chars[k])

\* C34: detectGaps returns exactly one gap for each of the four keywords
\* (name, work in USER.md; communication, disagree in RELATIONAL.md) that
\* does not occur in its document whatever the case, in that order, and
\* none for a keyword that occurs anywhere; a missing document is an empty
\* text.
C34_OneGapPerMissingKeyword ==
    (args.fn = "detectGaps" /\ ret.done) =>
        LET text(which) == IF docs[which].kind = "absent" THEN <<>>
                           ELSE DocText(docs[which].lines)
            missing == SelectSeq(GapKeywords,
                                 LAMBDA g : ~OccursIgnoringCase(g.chars, text(g.doc)))
        IN  ret.value = [j \in 1..Len(missing) |-> missing[j].gap]

\* an upper-case keyword in one document, a keyword inside a longer word
\* in the other, and the gaps of the two remaining keywords returned
C34_Witness ==
    /\ args.fn = "detectGaps"
    /\ ret.done
    /\ docs.user = DocFile(<<UpperNameLine, OtherLine>>)
    /\ docs.rel = DocFile(<<DisagreementLine, CommunicationLine>>)
    /\ ret.value = <<WorkGap>>

\* the logs of the memory folder that exist, the most recent first
ExistingLogs ==
    SelectSeq(<<logs.today, logs.yesterday>> \o logs.older, LAMBDA l : l.kind = "text")

\* C35: the fallback reader takes its decision entries from the two most
\* recent dated logs that exist, whatever their dates.
C35_TwoMostRecentLogsRead ==
    (args.fn = "getRecentContext" /\ ret.done /\ ret.value.fallbackRan) =>
        ret.value.context.recentDecisions =
            (IF Len(ExistingLogs) >= 1 THEN ReadLogDecisions(ExistingLogs[1]) ELSE <<>>)
            \o (IF Len(ExistingLogs) >= 2 THEN ReadLogDecisions(ExistingLogs[2]) ELSE <<>>)

\* C36: relationship mode only moves from learning to mature: when a tick
\* evaluates isInLearningMode as true, no tick that fired before it (and
\* has not returned yet) evaluated it as false, failed loads and
\* interrupted saves included.
C36_ModeOnlyMatures ==
    [][\A i \in TickIds :
          (ticks[i].pc = "idle" /\ ticks'[i].pc # "idle" /\ ticks'[i].inLearning)
              => \A j \in TickIds :
                    (j # i /\ ticks[j].pc # "idle") => ticks[j].inLearning]_vars

\* the callback in slot i has called the delivery with its hint and its
\* stamped record is what the store holds
TickCheckedIn(i) ==
    /\ ticks[i].pc = "done"
    /\ Count(ticks[i].log, "persist") > 0
    /\ ticks[i].prompt # NullValue
    /\ ticks[i].state.lastCheckInMs >= ticks[i].state.lastInteractionMs
    /\ loadIdleState(file, now).lastCheckInMs = ticks[i].state.lastCheckInMs
    /\ loadIdleState(file, now).checkInCount = ticks[i].state.checkInCount
    /\ ticks[i].state.checkInCount > 0

C38_CheckInsRepeatWhileIdle ==
    LET state == loadIdleState(file, now)
        threshold == IF isInLearningMode(state, now) THEN cfg.learningIdleThresholdMs
                     ELSE cfg.matureIdleThresholdMs
    IN  /\ state.lastInteractionMs = serial.lastInteractionMs
        /\ \A i \in TickIds :
              ticks[i].pc # "idle" => ticks[i].state.lastInteractionMs = serial.lastInteractionMs
        /\ shouldSendCheckIn(state, threshold, cfg.sleepStart, cfg.sleepEnd, Undefined, now)
              <=> /\ ~isInSleepHours(cfg.sleepStart, cfg.sleepEnd, now)
                  /\ now - state.lastCheckInMs >= DefaultMinTimeBetweenCheckInsMs
                  /\ now - serial.lastInteractionMs >= threshold

\* the user was idle for five hours and has not interacted since; two
\* check-ins were dispatched an hour apart, the second one is persisted,
\* and the gate is true again an hour after it
C38_Witness ==
    /\ turns = 0
    /\ Len(sent) = 2
    /\ sent[2].at = sent[1].at + DefaultMinTimeBetweenCheckInsMs
    /\ serial.lastInteractionMs = T0 - 5 * HourMs
    /\ loadIdleState(file, now).checkInCount = 2
    /\ loadIdleState(file, now).lastCheckInMs = sent[2].at
    /\ loadIdleState(file, now).lastInteractionMs = T0 - 5 * HourMs

\* C39: at most one timer of the scheduler is active at any time, and
\* after a stop() that follows any sequence of start() and stop() calls
\* (start, start, stop for one) no timer is left.
C39_AtMostOneTimer ==
    /\ Cardinality(svc.timers) <= 1
    /\ svc.stopped => svc.timers = {}

\* C40: for every time of day and every pair of sleep bounds (hours and
\* HH:MM with minutes alike) the sleep-window decision of the injection
\* hook equals the one of the check-in gate.
C40_HookAndGateAgree ==
    (args.fn = "sleepDecisions" /\ ret.done) => ret.value.hook = ret.value.gate

====
